---------------------------- MODULE Spec2Model ----------------------------
(***************************************************************************)
(* CAD-COIN ledger engine (src/src/models/blockchain.py, block.py,         *)
(* transaction.py, src/src/database/manager.py, src/src/cache/manager.py). *)
(*                                                                         *)
(* The durable store is PostgreSQL reached through psycopg2 with the       *)
(* driver's default isolation (READ COMMITTED): every get_connection()     *)
(* opens its own transaction, "with conn" commits on normal exit (an early *)
(* return included) and rolls back on an exception.  A request is handled  *)
(* by a worker thread; the steps of a request are its separate store       *)
(* transactions and cache accesses, and the steps of different workers     *)
(* interleave.  The writes of one store transaction become visible         *)
(* together at its commit, which is where the uniqueness constraints of    *)
(* the schema decide between commit and rollback.                          *)
(*                                                                         *)
(* Amounts are DECIMAL(20,8)/float in the code; here they are integers in  *)
(* units of 1/UnitsPerCoin coin, chosen so that the fee floor, the reward  *)
(* floor and every halved reward above the floor are whole numbers.        *)
(***************************************************************************)
EXTENDS Integers, Sequences, FiniteSets, TLC

\* ------------------------------------------------------------ bounds
MaxTime == 7         \* clock reading up to which a request that adds rows may start
MaxTxs == 3          \* transfers and mints enqueued up to which another may start
MaxNonce == 3        \* nonces 0..MaxNonce are the period of the digest model

\* ------------------------------------------------------------ configuration
UnitsPerCoin == 1000 * 256
MIN_REWARD == UnitsPerCoin \div 10
MIN_TRANSACTION_FEE == UnitsPerCoin \div 1000
AUTHORIZER_THRESHOLD == 100 * UnitsPerCoin
BASE_DIFFICULTY == 4
MAX_DIFFICULTY == 20
DIFFICULTY_ADJUSTMENT_INTERVAL == 10
TARGET_BLOCK_TIME == 10
\* BASE_MINING_REWARD, HALVING_INTERVAL, MAX_BLOCK_SIZE and
\* MAX_PENDING_TRANSACTIONS are read from the environment (defaults 50.0, 100,
\* 100 and 1000); the model runs a small configuration in which a halving, a
\* full block and the authorizer threshold are reached within a few blocks.
BASE_MINING_REWARD == 100 * UnitsPerCoin
HALVING_INTERVAL == 2
MAX_BLOCK_SIZE == 2
MAX_PENDING_TRANSACTIONS == 3

\* None / NULL / a missing value: the empty tuple; a present value v is <<v>>
None == <<>>
Some(v) == <<v>>
CAD == "CAD-COIN"
USDX == "USDX"

Workers == 1..2
Users == {"alice", "bob"}
Coins == {CAD, USDX}
\* request inputs
SymbolInputs == {"usdx"}
AmountInputs == {60 * UnitsPerCoin}
MintAmountInputs == {60 * UnitsPerCoin}
MaxSupplyInputs == {100 * UnitsPerCoin}
FeeInputs == {None}

\* ------------------------------------------------------------ state
VARIABLES
    blocks,              \* table blocks, rows in insertion order
    transactions,        \* table transactions, rows in insertion order
    pending,             \* table pending_transactions, rows in insertion order
    balances,            \* table balances: <<address, coin_type>> -> balance, one entry per row
    stable_coins,        \* table stable_coins: symbol -> row, one entry per row
    authorized_minters,  \* table authorized_minters, rows in insertion order
    chain_stats,         \* table chain_stats, rows in insertion order
    mining_attempts,     \* table mining_attempts, rows in insertion order
    cache,               \* hot cache: key -> value, one entry per live key
    pc,                  \* per worker: position in the request it serves
    local                \* per worker: the request's local variables

store == <<blocks, transactions, pending, balances, stable_coins,
           authorized_minters, chain_stats, mining_attempts>>
vars == <<blocks, transactions, pending, balances, stable_coins,
          authorized_minters, chain_stats, mining_attempts, cache, pc, local>>

\* ------------------------------------------------------------ helpers
RECURSIVE SumSeq(_)
SumSeq(s) == IF s = <<>> THEN 0 ELSE Head(s) + SumSeq(Tail(s))

Max2(a, b) == IF a >= b THEN a ELSE b
Min2(a, b) == IF a <= b THEN a ELSE b

RECURSIVE Pow2(_)
Pow2(n) == IF n = 0 THEN 1 ELSE 2 * Pow2(n - 1)

Range(s) == {s[i] : i \in 1..Len(s)}

\* faulty variant: the symbol is used as the request carries it
Upper_Identity(s) == s

\* str.upper() on the symbols requests carry
Upper(s) == IF s = "usdx" THEN "USDX" ELSE IF s = "cad-coin" THEN "CAD-COIN" ELSE s


\* ------------------------------------------------------------ Transaction
NoMetadata == [none |-> TRUE]

\* Transaction.__init__; id is the uuid4() drawn, t the time.time() read
Transaction(id, sender, receiver, amount, coin_type, transaction_type, metadata, fee, t) ==
    [id |-> id, sender |-> sender, receiver |-> receiver, amount |-> amount,
     fee |-> fee, coin_type |-> coin_type, transaction_type |-> transaction_type,
     metadata |-> metadata, timestamp |-> t]

\* faulty variant: the self-transfer test applies to every type
TxIsValid_AnyType(tx) ==
    IF tx.amount <= 0 THEN "Amount must be positive"
    ELSE IF tx.fee < 0 THEN "Fee cannot be negative"
    ELSE IF Len(tx.sender) < 3 \/ Len(tx.receiver) < 3 THEN "Invalid address format"
    ELSE IF tx.sender = tx.receiver THEN "Cannot transfer to self"
    ELSE "Valid"

\* Transaction.is_valid: "Valid" or the reason of the first failed test
TxIsValid(tx) ==
    IF tx.amount <= 0 THEN "Amount must be positive"
    ELSE IF tx.fee < 0 THEN "Fee cannot be negative"
    ELSE IF Len(tx.sender) < 3 \/ Len(tx.receiver) < 3 THEN "Invalid address format"
    ELSE IF tx.sender = tx.receiver /\ tx.transaction_type = "transfer"
         THEN "Cannot transfer to self"
    ELSE "Valid"

\* ------------------------------------------------------------ Difficulty Engine
\* calculate_mining_reward, line 107: base_mining_reward / (2 ** halvings)
\* converts the integer power to a float and raises OverflowError once it
\* exceeds the double range, at 2 ** FLOAT_MAX_EXP
FLOAT_MAX_EXP == 1024
RewardOverflows(block_index) == block_index \div HALVING_INTERVAL >= FLOAT_MAX_EXP

\* calculate_mining_reward where it returns: base / 2^halvings, floored at 0.1
CalculateMiningReward(block_index) ==
    LET halvings == block_index \div HALVING_INTERVAL
        reward == IF halvings > 30 THEN 0 ELSE BASE_MINING_REWARD \div Pow2(halvings)
    IN  Max2(reward, MIN_REWARD)

\* SELECT ... FROM blocks ORDER BY index DESC LIMIT n
RECURSIVE BlocksByIndexDesc(_, _)
BlocksByIndexDesc(rows, n) ==
    IF n = 0 \/ rows = {} THEN <<>>
    ELSE LET top == CHOOSE r \in rows : \A q \in rows : q.index <= r.index
         IN  <<top>> \o BlocksByIndexDesc(rows \ {top}, n - 1)

\* calculate_current_difficulty, lines 77-102: the rule on the rows fetched,
\* newest first
Retarget(rows) ==
    LET n == Len(rows) IN
    IF n < DIFFICULTY_ADJUSTMENT_INTERVAL THEN BASE_DIFFICULTY
    ELSE LET total_time == rows[1].timestamp - rows[n].timestamp
             \* avg_time = total_time / n against multiples of the target
             d0 == rows[1].difficulty
             T == TARGET_BLOCK_TIME
         IN  IF 2 * total_time < T * n THEN Min2(d0 + 2, MAX_DIFFICULTY)
             ELSE IF 10 * total_time < 8 * T * n THEN Min2(d0 + 1, MAX_DIFFICULTY)
             ELSE IF total_time > 2 * T * n THEN Max2(d0 - 2, BASE_DIFFICULTY)
             ELSE IF 2 * total_time > 3 * T * n THEN Max2(d0 - 1, BASE_DIFFICULTY)
             ELSE d0

\* calculate_current_difficulty on the committed blocks table
CalculateCurrentDifficulty(blks) ==
    Retarget(BlocksByIndexDesc(Range(blks), DIFFICULTY_ADJUSTMENT_INTERVAL + 1))

\* ------------------------------------------------------------ Block
\* SHA-256 is modelled as a collision-free digest of its pre-image; the number
\* of leading '0' characters of a digest is a fixed function of the pre-image.
SHA256(x) == [sha256 |-> x]

GenesisHash == SHA256([text |-> "genesis_block_cad_coin_ultra_robust"])
ZeroHash == [literal |-> "0"]
NoHash == [none |-> TRUE]

\* Block.__init__
Block(index, txs, previous_hash, miner, difficulty, t) ==
    [index |-> index, transactions |-> txs, previous_hash |-> previous_hash,
     miner |-> miner, timestamp |-> t, difficulty |-> difficulty, nonce |-> 0,
     hash |-> NoHash, block_size |-> Len(txs),
     total_fees |-> SumSeq([i \in 1..Len(txs) |-> txs[i].fee])]

\* the dictionary Block.calculate_hash serialises with sorted keys
Canonical(b) ==
    [index |-> b.index, transactions |-> b.transactions,
     previous_hash |-> b.previous_hash, miner |-> b.miner,
     timestamp |-> b.timestamp, nonce |-> b.nonce]

CalculateHash(b) == SHA256(Canonical(b))

\* leading '0' characters of a digest.  The text digest is the real one
\* (38f0ab84...).  A block digest follows its header: the nonce walks through
\* MaxNonce + 1 residues, one of which gives a digest of MAX_DIFFICULTY zeros,
\* except for headers no nonce of which reaches BASE_DIFFICULTY zeros.
DigestSeed(x) == x.index + x.timestamp + Len(x.transactions)
HardHeader(x) == DigestSeed(x) % 4 = 0
LeadingZeros(h) ==
    IF "sha256" \notin DOMAIN h THEN 0
    ELSE LET x == h.sha256 IN
         IF "text" \in DOMAIN x THEN 0
         ELSE LET r == (DigestSeed(x) + x.nonce) % (MaxNonce + 1) IN
              IF HardHeader(x) THEN r % BASE_DIFFICULTY
              ELSE IF r = 0 THEN MAX_DIFFICULTY ELSE (r - 1) % BASE_DIFFICULTY

\* faulty variant: any digest passes
StartsWithZeros_Any(h, difficulty) == h # NoHash

\* hash.startswith("0" * difficulty)
StartsWithZeros(h, difficulty) == h # NoHash /\ LeadingZeros(h) >= difficulty

\* Block.mine_block: nonce 0, 1, 2, ... until the digest has the prefix.  When
\* a whole period of nonces fails, no later nonce succeeds and the loop ends at
\* the deadline check that finds the timeout elapsed: failure.
RECURSIVE MineLoop(_)
MineLoop(b) ==
    LET h == CalculateHash(b) IN
    IF StartsWithZeros(h, b.difficulty) THEN [ok |-> TRUE, block |-> [b EXCEPT !.hash = h]]
    ELSE IF b.nonce >= MaxNonce THEN [ok |-> FALSE, block |-> [b EXCEPT !.hash = h]]
    ELSE MineLoop([b EXCEPT !.nonce = b.nonce + 1])

MineBlock(b) == MineLoop(b)

\* Block.is_valid
RECURSIVE FirstInvalidTx(_)
FirstInvalidTx(txs) ==
    IF txs = <<>> THEN "Valid"
    ELSE IF TxIsValid(Head(txs)) # "Valid" THEN "Invalid transaction"
    ELSE FirstInvalidTx(Tail(txs))

\* faulty variant: the transactions are not validated
BlockIsValid_NoTransactions(b, expected_previous_hash) ==
    IF b.previous_hash # expected_previous_hash THEN "Invalid previous hash"
    ELSE IF ~StartsWithZeros(b.hash, b.difficulty) THEN "Invalid block hash or difficulty"
    ELSE IF CalculateHash(b) # b.hash THEN "Block hash verification failed"
    ELSE IF Len(b.transactions) = 0 THEN "Block cannot be empty"
    ELSE "Valid"

BlockIsValid(b, expected_previous_hash) ==
    IF b.previous_hash # expected_previous_hash THEN "Invalid previous hash"
    ELSE IF ~StartsWithZeros(b.hash, b.difficulty) THEN "Invalid block hash or difficulty"
    ELSE IF CalculateHash(b) # b.hash THEN "Block hash verification failed"
    ELSE IF Len(b.transactions) = 0 THEN "Block cannot be empty"
    ELSE FirstInvalidTx(b.transactions)


\* ------------------------------------------------------------ Mempool
\* faulty variant: ORDER BY priority_score DESC
Priority_Score(row, now) == row.priority_score

\* fee + (NOW - timestamp) / 3600 in coins, scaled by 3600 * UnitsPerCoin
Priority(row, now) == row.fee * 3600 + (now - row.timestamp) * UnitsPerCoin

\* ORDER BY priority DESC, created_at ASC LIMIT n over the rows at the
\* positions idxs (created_at follows the insertion order)
RECURSIVE OrderByPriority(_, _, _, _)
OrderByPriority(rows, idxs, now, n) ==
    IF n = 0 \/ idxs = {} THEN <<>>
    ELSE LET best == CHOOSE i \in idxs : \A j \in idxs :
                         \/ Priority(rows[i], now) > Priority(rows[j], now)
                         \/ /\ Priority(rows[i], now) = Priority(rows[j], now)
                            /\ i <= j
         IN  <<rows[best]>> \o OrderByPriority(rows, idxs \ {best}, now, n - 1)

\* get_priority_pending_transactions(limit); limit None means max_block_size
GetPriorityPendingTransactions(rows, limit, now) ==
    OrderByPriority(rows, 1..Len(rows), now,
                    IF limit = None THEN MAX_BLOCK_SIZE ELSE limit[1])

\* get_pending_transactions
GetPendingTransactions(rows, now) == GetPriorityPendingTransactions(rows, None, now)

\* int(fee * 1000), fee in coins
PriorityScore(fee) == (fee * 1000) \div UnitsPerCoin

\* faulty variant: amount * 0.001 without the floor
DefaultFee_NoFloor(amount) == amount \div 1000

\* max(min_transaction_fee, amount * 0.001)
DefaultFee(amount) == Max2(MIN_TRANSACTION_FEE, amount \div 1000)

\* the pending_transactions row of a transaction
PendingRow(tx) ==
    [tx_id |-> tx.id, sender |-> tx.sender, receiver |-> tx.receiver,
     amount |-> tx.amount, fee |-> tx.fee, coin_type |-> tx.coin_type,
     transaction_type |-> tx.transaction_type, metadata |-> tx.metadata,
     timestamp |-> tx.timestamp, priority_score |-> PriorityScore(tx.fee)]

\* mine_pending_transactions, lines 266-279: the Transaction rebuilt from a row
FromPendingRow(txd) ==
    [id |-> txd.tx_id, sender |-> txd.sender, receiver |-> txd.receiver,
     amount |-> txd.amount, fee |-> txd.fee, coin_type |-> txd.coin_type,
     transaction_type |-> txd.transaction_type, metadata |-> txd.metadata,
     timestamp |-> txd.timestamp]

\* the transactions row of a transaction of block block_index
TransactionRow(tx, block_index) ==
    [tx_id |-> tx.id, block_index |-> block_index, sender |-> tx.sender,
     receiver |-> tx.receiver, amount |-> tx.amount, fee |-> tx.fee,
     coin_type |-> tx.coin_type, transaction_type |-> tx.transaction_type,
     metadata |-> tx.metadata, timestamp |-> tx.timestamp]

\* ------------------------------------------------------------ Balance Engine
\* SELECT balance ... ; no row reads as 0.0
StoredBalance(bal, address, coin_type) ==
    IF <<address, coin_type>> \in DOMAIN bal THEN bal[<<address, coin_type>>] ELSE 0

\* faulty variant: the INSERT branch stores a zero balance
Upsert_InsertZero(bal, address, coin_type, v, d) ==
    LET k == <<address, coin_type>> IN
    IF k \in DOMAIN bal THEN [bal EXCEPT ![k] = @ + d] ELSE (k :> 0) @@ bal

\* INSERT (address, coin, v) ON CONFLICT DO UPDATE SET balance = balance + d
Upsert(bal, address, coin_type, v, d) ==
    LET k == <<address, coin_type>> IN
    IF k \in DOMAIN bal THEN [bal EXCEPT ![k] = @ + d] ELSE (k :> v) @@ bal

\* faulty variant: the debit leaves the fee with the sender
DebitSender_AmountOnly(bal, tx) == Upsert(bal, tx.sender, tx.coin_type, 0, 0 - tx.amount)

\* the statements update_balances_enhanced runs for one transaction
DebitSender(bal, tx) == Upsert(bal, tx.sender, tx.coin_type, 0, 0 - (tx.amount + tx.fee))

\* faulty variant: the credit includes the fee
CreditReceiver_WithFee(bal, tx) ==
    Upsert(bal, tx.receiver, tx.coin_type, tx.amount + tx.fee, tx.amount + tx.fee)

CreditReceiver(bal, tx) == Upsert(bal, tx.receiver, tx.coin_type, tx.amount, tx.amount)

\* faulty variant: a mint is applied as a transfer from its sender
ApplyTransaction_MintDebits(bal, tx) ==
    IF tx.transaction_type = "mining_reward" THEN CreditReceiver(bal, tx)
    ELSE CreditReceiver(DebitSender(bal, tx), tx)

ApplyTransaction(bal, tx) ==
    IF tx.transaction_type = "mint_stable" THEN CreditReceiver(bal, tx)
    ELSE IF tx.transaction_type = "mining_reward" THEN CreditReceiver(bal, tx)
    ELSE CreditReceiver(DebitSender(bal, tx), tx)

RECURSIVE UpdateBalancesEnhanced(_, _)
UpdateBalancesEnhanced(txs, bal) ==
    IF txs = <<>> THEN bal
    ELSE UpdateBalancesEnhanced(Tail(txs), ApplyTransaction(bal, Head(txs)))


\* ------------------------------------------------------------ Hot Cache
LatestBlockKey == <<"latest_block", "", "">>
BalanceKey(address, coin_type) == <<"balance", address, coin_type>>
StableCoinsKey == <<"stable_coins", "", "">>
ChainInfoKey == <<"enhanced_chain_info", "", "">>

\* CacheManager.get: the value as <<v>>, or None
CacheGet(c, key) == IF key \in DOMAIN c THEN Some(c[key]) ELSE None

\* CacheManager.set
CacheSet(c, key, value) == (key :> value) @@ c

\* CacheManager.delete
CacheDelete(c, key) == [k \in DOMAIN c \ {key} |-> c[k]]

\* str.startswith on the addresses of the model, none a prefix of another
StartsWith(s, prefix) == s = prefix

\* does the key's string match the glob  <kind>_<address>*  /  <kind>*
KeyMatches(key, kind, address) ==
    /\ key[1] = kind
    /\ address # "" => StartsWith(key[2], address)

\* CacheManager.invalidate_pattern
InvalidatePattern(c, kind, address) ==
    [k \in {q \in DOMAIN c : ~KeyMatches(q, kind, address)} |-> c[k]]

\* ------------------------------------------------------------ Durable Store
\* the blocks row of a mined block
BlockRow(b) ==
    [index |-> b.index, hash |-> b.hash, previous_hash |-> b.previous_hash,
     miner |-> b.miner, nonce |-> b.nonce, difficulty |-> b.difficulty,
     timestamp |-> b.timestamp, block_size |-> b.block_size,
     total_fees |-> b.total_fees]

\* init_genesis_block, on an empty blocks table
GenesisRow(t) ==
    [index |-> 0, hash |-> GenesisHash, previous_hash |-> ZeroHash,
     miner |-> "genesis", nonce |-> 0, difficulty |-> BASE_DIFFICULTY,
     timestamp |-> t, block_size |-> 0, total_fees |-> 0]

GenesisStats ==
    [block_index |-> 0, current_difficulty |-> BASE_DIFFICULTY,
     current_reward |-> BASE_MINING_REWARD]

\* symbol VARCHAR(20): the INSERT of a longer symbol raises DataError
LongSymbol == "ABCDEFGHIJKLMNOPQRSTU"
FitsSymbol(symbol) == symbol # LongSymbol

\* init_database: the seeded CAD-COIN record
SeedCoin == [symbol |-> CAD, max_supply |-> None, total_supply |-> 0]

\* SELECT COALESCE(MAX(index), -1) + 1 FROM blocks
\* faulty variant: MAX(index) + 2 leaves a gap
NextIndex_Gap(blks) ==
    IF blks = <<>> THEN 0
    ELSE (CHOOSE m \in {blks[i].index : i \in 1..Len(blks)} :
              \A i \in 1..Len(blks) : blks[i].index <= m) + 2

NextIndex(blks) ==
    IF blks = <<>> THEN 0
    ELSE (CHOOSE m \in {blks[i].index : i \in 1..Len(blks)} :
              \A i \in 1..Len(blks) : blks[i].index <= m) + 1

\* SELECT * FROM blocks ORDER BY index DESC LIMIT 1
TipRow(blks) == BlocksByIndexDesc(Range(blks), 1)[1]

\* UNIQUE(index), UNIQUE(hash) on blocks
BlockInsertOk(blks, row) ==
    \A i \in 1..Len(blks) : blks[i].index # row.index /\ blks[i].hash # row.hash

\* faulty variant: transactions.tx_id carries no uniqueness constraint
TransactionsInsertOk_NoConstraint(rows, txs) == TRUE

\* UNIQUE(tx_id) on transactions
TransactionsInsertOk(rows, txs) ==
    \A i \in 1..Len(rows) : \A j \in 1..Len(txs) : rows[i].tx_id # txs[j].id

\* UNIQUE(block_index) on chain_stats
StatsInsertOk(rows, block_index) ==
    \A i \in 1..Len(rows) : rows[i].block_index # block_index

\* faulty variant: no INSERT of the commit can violate a constraint
CommitOk_NoConstraint(blks, rows, stats, row, txs) == TRUE

\* the INSERTs of the commit all pass their uniqueness constraints
CommitOk(blks, rows, stats, row, txs) ==
    /\ BlockInsertOk(blks, row)
    /\ TransactionsInsertOk(rows, txs)
    /\ StatsInsertOk(stats, row.index)

\* DELETE FROM pending_transactions WHERE tx_id = ANY(ids)
DeletePending(rows, ids) == SelectSeq(rows, LAMBDA r : r.tx_id \notin ids)

\* faulty variant: the UPDATE sets no end_time
UpdateAttempts_NoEndTime(rows, block_index, miner, end_time, success, attempts_count) ==
    [i \in 1..Len(rows) |->
        IF rows[i].block_index = block_index /\ rows[i].miner = miner
        THEN [rows[i] EXCEPT !.success = success,
                             !.attempts_count = IF attempts_count = None THEN @
                                                ELSE attempts_count[1]]
        ELSE rows[i]]

\* UPDATE mining_attempts SET end_time, success, attempts_count
\*   WHERE block_index = .. AND miner = ..   (attempts_count None: not set)
UpdateAttempts(rows, block_index, miner, end_time, success, attempts_count) ==
    [i \in 1..Len(rows) |->
        IF rows[i].block_index = block_index /\ rows[i].miner = miner
        THEN [rows[i] EXCEPT !.end_time = Some(end_time), !.success = success,
                             !.attempts_count = IF attempts_count = None THEN @
                                                ELSE attempts_count[1]]
        ELSE rows[i]]

AttemptRow(block_index, miner, start_time) ==
    [block_index |-> block_index, miner |-> miner, start_time |-> start_time,
     end_time |-> None, success |-> FALSE, attempts_count |-> 0]

\* ------------------------------------------------------------ requests
\* time.time(): a logical clock that advances with every row committed
Now == Len(blocks) + Len(transactions) + Len(pending) + Len(mining_attempts)

\* uuid4() drawn by worker w: unique, as the worker commits at most one
\* transaction per request and every commit advances the clock
Uuid4(w) == <<w, Now>>

\* transfers and mints enqueued so far
Enqueued == Len(pending) + Cardinality({i \in 1..Len(transactions) :
                                          transactions[i].transaction_type # "mining_reward"})

Idle(w) == pc[w] = "idle"

\* the worker returns (ok, message) to its caller
Return(w, op, ok, message) ==
    /\ pc' = [pc EXCEPT ![w] = "idle"]
    /\ local' = [local EXCEPT ![w] = [op |-> op, ok |-> ok, message |-> message]]

Goto(w, label, vals) ==
    /\ pc' = [pc EXCEPT ![w] = label]
    /\ local' = [local EXCEPT ![w] = vals]

Init ==
    /\ blocks = <<GenesisRow(0)>>
    /\ transactions = <<>>
    /\ pending = <<>>
    /\ balances = <<>>
    /\ stable_coins = (CAD :> SeedCoin)
    /\ authorized_minters = <<>>
    /\ chain_stats = <<GenesisStats>>
    /\ mining_attempts = <<>>
    /\ cache = <<>>
    /\ pc = [w \in Workers |-> "idle"]
    /\ local = [w \in Workers |-> [op |-> "none", ok |-> TRUE, message |-> "none"]]

\* UltraRobustBlockchain.__init__ in the process of worker w, at its start or
\* restart: init_genesis_block inserts the genesis block and its chain_stats
\* row when the blocks table is empty
InitGenesisBlock(w) ==
    /\ pc[w] \in {"start", "idle"}
    /\ IF blocks = <<>>
       THEN /\ blocks' = <<GenesisRow(Now)>>
            /\ chain_stats' = Append(chain_stats, GenesisStats)
            /\ Return(w, "init", TRUE, "genesis block created")
       ELSE /\ UNCHANGED <<blocks, chain_stats>>
            /\ Return(w, "init", TRUE, "none")
    /\ UNCHANGED <<transactions, pending, balances, stable_coins, authorized_minters,
                   mining_attempts, cache>>

\* ------------------------------------------------------------ mine_pending_transactions
\* line 241: the priority selection, read in a transaction of its own
MineStartWithin(w, miner, limit) ==
    /\ Idle(w)
    /\ Now < limit
    /\ Goto(w, "mine_difficulty",
            [op |-> "mine", miner |-> miner,
             pending_txs_data |-> GetPriorityPendingTransactions(pending, None, Now)])
    /\ UNCHANGED <<store, cache>>

MineStart(w, miner) == MineStartWithin(w, miner, MaxTime)

\* line 245: calculate_current_difficulty, a transaction of its own
MineDifficulty(w) ==
    /\ pc[w] = "mine_difficulty"
    /\ Goto(w, "mine_begin",
            [op |-> "mine", miner |-> local[w].miner,
             pending_txs_data |-> local[w].pending_txs_data,
             current_difficulty |-> CalculateCurrentDifficulty(blocks)])
    /\ UNCHANGED <<store, cache>>

\* faulty variant: the reward transaction carries the base reward only
BlockTransactions_NoFees(pending_txs_data, miner, mining_reward, id, t) ==
    LET txs == [i \in 1..Len(pending_txs_data) |-> FromPendingRow(pending_txs_data[i])]
        reward_tx == Transaction(id, "mining_reward", miner, mining_reward,
                                 CAD, "mining_reward", NoMetadata, 0, t)
    IN  Append(txs, reward_tx)

\* the transactions of the block: the selected rows, then the reward
BlockTransactions(pending_txs_data, miner, mining_reward, id, t) ==
    LET txs == [i \in 1..Len(pending_txs_data) |-> FromPendingRow(pending_txs_data[i])]
        total_fees == SumSeq([i \in 1..Len(txs) |-> txs[i].fee])
        reward_tx == Transaction(id, "mining_reward", miner, mining_reward + total_fees,
                                 CAD, "mining_reward", NoMetadata, 0, t)
    IN  Append(txs, reward_tx)

\* lines 247-289: next index, reward, the attempt row (not yet committed), the
\* transaction list with the reward transaction
MineBegin(w) ==
    /\ pc[w] = "mine_begin"
    /\ LET next_index == NextIndex(blocks)
           mining_reward == CalculateMiningReward(next_index)
       IN  IF RewardOverflows(next_index)
           THEN Return(w, "mine", FALSE, "Mining error")
           ELSE
           Goto(w, "mine_latest",
                [op |-> "mine", miner |-> local[w].miner,
                 current_difficulty |-> local[w].current_difficulty,
                 next_index |-> next_index, mining_reward |-> mining_reward,
                 attempt_start |-> Now,
                 transactions |-> BlockTransactions(local[w].pending_txs_data,
                                                    local[w].miner, mining_reward,
                                                    Uuid4(w), Now)])
    /\ UNCHANGED <<store, cache>>

\* line 292, get_latest_block: the cached block if any, else the stored tip
MineGetLatest(w) ==
    /\ pc[w] = "mine_latest"
    /\ LET cached == CacheGet(cache, LatestBlockKey) IN
       IF cached # None
       THEN Goto(w, "mine_pow", local[w] @@ [latest_block |-> cached[1]])
       ELSE Goto(w, "mine_cache_set",
                 local[w] @@ [latest_block |-> TipRow(blocks)])
    /\ UNCHANGED <<store, cache>>

\* get_latest_block, line 443: cache.set of the row read
MineCacheSet(w) ==
    /\ pc[w] = "mine_cache_set"
    /\ cache' = CacheSet(cache, LatestBlockKey, local[w].latest_block)
    /\ Goto(w, "mine_pow", local[w])
    /\ UNCHANGED <<store>>

\* lines 295-313 and 377-385: build the block, search the nonce, validate
MinePow(w) ==
    /\ pc[w] = "mine_pow"
    /\ LET l == local[w]
           new_block == Block(l.next_index, l.transactions, l.latest_block.hash,
                              l.miner, l.current_difficulty, Now)
           mined == MineBlock(new_block)
           attempt == AttemptRow(l.next_index, l.miner, l.attempt_start)
       IN  IF mined.ok
           THEN LET error == BlockIsValid(mined.block, l.latest_block.hash) IN
                IF error # "Valid"
                THEN \* return inside "with conn": the attempt row is committed
                     /\ mining_attempts' = Append(mining_attempts, attempt)
                     /\ Return(w, "mine", FALSE, "Block validation failed")
                ELSE /\ Goto(w, "mine_commit", l @@ [new_block |-> mined.block])
                     /\ UNCHANGED mining_attempts
           ELSE /\ mining_attempts' =
                       UpdateAttempts(Append(mining_attempts, attempt),
                                      l.next_index, l.miner, Now, FALSE, None)
                /\ Return(w, "mine", FALSE, "Mining failed or timed out")
    /\ UNCHANGED <<blocks, transactions, pending, balances, stable_coins,
                   authorized_minters, chain_stats, cache>>

\* lines 316-362 and 387-389: the inserts, updates and delete of the commit;
\* a uniqueness violation raises, the transaction rolls back
MineCommit(w) ==
    /\ pc[w] = "mine_commit"
    /\ LET l == local[w]
           b == l.new_block
           attempt == AttemptRow(l.next_index, l.miner, l.attempt_start)
           processed_tx_ids == {l.transactions[i].id : i \in 1..(Len(l.transactions) - 1)}
       IN  IF CommitOk(blocks, transactions, chain_stats, BlockRow(b), l.transactions)
           THEN /\ blocks' = Append(blocks, BlockRow(b))
                /\ transactions' = transactions \o
                       [i \in 1..Len(l.transactions) |->
                            TransactionRow(l.transactions[i], b.index)]
                /\ balances' = UpdateBalancesEnhanced(l.transactions, balances)
                /\ chain_stats' = Append(chain_stats,
                       [block_index |-> b.index,
                        current_difficulty |-> l.current_difficulty,
                        current_reward |-> l.mining_reward])
                /\ mining_attempts' =
                       UpdateAttempts(Append(mining_attempts, attempt),
                                      l.next_index, l.miner, Now, TRUE, Some(b.nonce))
                /\ pending' = DeletePending(pending, processed_tx_ids)
                /\ Goto(w, "mine_invalidate", l)
           ELSE /\ Return(w, "mine", FALSE, "Mining error")
                /\ UNCHANGED <<blocks, transactions, balances, chain_stats,
                               mining_attempts, pending>>
    /\ UNCHANGED <<stable_coins, authorized_minters, cache>>

\* lines 365-376: the three pattern invalidations, then success
MineInvalidate(w) ==
    /\ pc[w] = "mine_invalidate"
    /\ cache' = InvalidatePattern(
                    InvalidatePattern(
                        InvalidatePattern(cache, "latest_block", ""),
                        "chain_info", ""),
                    "balance", local[w].miner)
    /\ Return(w, "mine", TRUE, "Mined block")
    /\ UNCHANGED <<store>>


\* ------------------------------------------------------------ get_balance
\* get_balance up to its cache.set: the cached value, or the stored balance
\* (then hit is FALSE and the caller's next step is the cache.set)
BalanceLookup(address, coin_type) ==
    LET cached == CacheGet(cache, BalanceKey(address, coin_type)) IN
    IF cached # None THEN [hit |-> TRUE, balance |-> cached[1]]
    ELSE [hit |-> FALSE, balance |-> StoredBalance(balances, address, coin_type)]

\* ------------------------------------------------------------ create_transaction
\* lines 186-199: amount and fee checks, then get_balance
TxStart(w, sender, receiver, amount, coin_type, fee_in) ==
    /\ Idle(w)
    /\ Now < MaxTime
    /\ Enqueued < MaxTxs
    /\ LET fee == IF fee_in = None THEN DefaultFee(amount) ELSE fee_in[1] IN
       IF amount <= 0 THEN Return(w, "transfer", FALSE, "Amount must be positive")
       ELSE IF fee < MIN_TRANSACTION_FEE THEN Return(w, "transfer", FALSE, "Fee too low")
       ELSE LET got == BalanceLookup(sender, coin_type) IN
            Goto(w, IF got.hit THEN "tx_check" ELSE "tx_cache_set",
                 [op |-> "transfer", sender |-> sender, receiver |-> receiver,
                  amount |-> amount, coin_type |-> coin_type, fee |-> fee,
                  balance |-> got.balance])
    /\ UNCHANGED <<store, cache>>

\* get_balance, line 461
TxCacheSet(w) ==
    /\ pc[w] = "tx_cache_set"
    /\ cache' = CacheSet(cache, BalanceKey(local[w].sender, local[w].coin_type),
                         local[w].balance)
    /\ Goto(w, "tx_check", local[w])
    /\ UNCHANGED <<store>>

\* lines 198-205: the balance test, then the pending count
TxCheck(w) ==
    /\ pc[w] = "tx_check"
    /\ LET l == local[w]
           total_required == l.amount + l.fee
           pending_count == Len(GetPendingTransactions(pending, Now))
       IN  IF l.balance < total_required
           THEN Return(w, "transfer", FALSE, "Insufficient balance")
           ELSE IF pending_count >= MAX_PENDING_TRANSACTIONS
           THEN Return(w, "transfer", FALSE, "Too many pending transactions")
           ELSE Goto(w, "tx_insert", l)
    /\ UNCHANGED <<store, cache>>

\* faulty variant: the INSERT is committed before is_valid is consulted
TxInsert_InsertFirst(w) ==
    /\ pc[w] = "tx_insert"
    /\ LET l == local[w]
           tx == Transaction(Uuid4(w), l.sender, l.receiver, l.amount, l.coin_type,
                             "transfer", NoMetadata, l.fee, Now)
       IN  IF l.coin_type \notin DOMAIN stable_coins
           THEN /\ Return(w, "transfer", FALSE, "Coin type does not exist")
                /\ UNCHANGED pending
           ELSE /\ pending' = Append(pending, PendingRow(tx))
                /\ IF TxIsValid(tx) # "Valid"
                   THEN Return(w, "transfer", FALSE, TxIsValid(tx))
                   ELSE Return(w, "transfer", TRUE, "Transaction added to pending pool")
    /\ UNCHANGED <<blocks, transactions, balances, stable_coins, authorized_minters,
                   chain_stats, mining_attempts, cache>>

\* lines 207-231: coin lookup, Transaction, is_valid, INSERT, commit
TxInsert(w) ==
    /\ pc[w] = "tx_insert"
    /\ LET l == local[w]
           tx == Transaction(Uuid4(w), l.sender, l.receiver, l.amount, l.coin_type,
                             "transfer", NoMetadata, l.fee, Now)
       IN  IF l.coin_type \notin DOMAIN stable_coins
           THEN /\ Return(w, "transfer", FALSE, "Coin type does not exist")
                /\ UNCHANGED pending
           ELSE IF TxIsValid(tx) # "Valid"
           THEN /\ Return(w, "transfer", FALSE, TxIsValid(tx))
                /\ UNCHANGED pending
           ELSE /\ pending' = Append(pending, PendingRow(tx))
                /\ Return(w, "transfer", TRUE, "Transaction added to pending pool")
    /\ UNCHANGED <<blocks, transactions, balances, stable_coins, authorized_minters,
                   chain_stats, mining_attempts, cache>>

\* ------------------------------------------------------------ queries
\* GET /balance/<address>/<coin>: get_balance
BalanceQuery(w, address, coin_type) ==
    /\ Idle(w)
    /\ LET got == BalanceLookup(address, coin_type) IN
       IF got.hit THEN Return(w, "balance", TRUE, "balance")
       ELSE Goto(w, "balance_cache_set",
                 [op |-> "balance", address |-> address, coin_type |-> coin_type,
                  balance |-> got.balance])
    /\ UNCHANGED <<store, cache>>

BalanceCacheSet(w) ==
    /\ pc[w] = "balance_cache_set"
    /\ cache' = CacheSet(cache, BalanceKey(local[w].address, local[w].coin_type),
                         local[w].balance)
    /\ Return(w, "balance", TRUE, "balance")
    /\ UNCHANGED <<store>>

\* GET /mining_stats, GET /info: get_latest_block
LatestBlockQuery(w) ==
    /\ Idle(w)
    /\ IF CacheGet(cache, LatestBlockKey) # None
       THEN Return(w, "latest_block", TRUE, "latest_block")
       ELSE Goto(w, "latest_cache_set",
                 [op |-> "latest_block", latest_block |-> TipRow(blocks)])
    /\ UNCHANGED <<store, cache>>

LatestCacheSet(w) ==
    /\ pc[w] = "latest_cache_set"
    /\ cache' = CacheSet(cache, LatestBlockKey, local[w].latest_block)
    /\ Return(w, "latest_block", TRUE, "latest_block")
    /\ UNCHANGED <<store>>

\* validate_chain_integrity, lines 141-153: the previous block, looked up
\* among the rows fetched, else in the table
\* faulty variant: no lookup in the table
PreviousBlock_WindowOnly(rows, blks, index) ==
    LET inside == {k \in 1..Len(rows) : rows[k].index = index} IN
    IF inside # {} THEN Some(rows[CHOOSE k \in inside : TRUE])
    ELSE None

PreviousBlock(rows, blks, index) ==
    LET inside == {k \in 1..Len(rows) : rows[k].index = index}
        stored == {k \in 1..Len(blks) : blks[k].index = index}
    IN  IF inside # {} THEN Some(rows[CHOOSE k \in inside : TRUE])
        ELSE IF stored # {} THEN Some(blks[CHOOSE k \in stored : TRUE])
        ELSE None

\* validate_chain_integrity, lines 132-158: the loop from row i on
RECURSIVE ValidateFrom(_, _, _)
ValidateFrom(rows, blks, i) ==
    IF i > Len(rows) THEN [ok |-> TRUE, message |-> "Chain integrity validated", block |-> None]
    ELSE LET block == rows[i]
             previous_block == PreviousBlock(SubSeq(rows, i + 1, Len(rows)), blks,
                                             block.index - 1)
         IN  IF block.index = 0 THEN ValidateFrom(rows, blks, i + 1)
             ELSE IF previous_block = None
             THEN [ok |-> FALSE, message |-> "Missing previous block for block",
                   block |-> Some(block.index)]
             ELSE IF block.previous_hash # previous_block[1].hash
             THEN [ok |-> FALSE, message |-> "Chain integrity violation at block",
                   block |-> Some(block.index)]
             ELSE ValidateFrom(rows, blks, i + 1)

\* validate_chain_integrity(depth)
ValidateChainIntegrity(blks, depth) ==
    LET rows == BlocksByIndexDesc(Range(blks), depth) IN
    IF rows = <<>> THEN [ok |-> TRUE, message |-> "No blocks to validate", block |-> None]
    ELSE ValidateFrom(rows, blks, 1)

\* GET /validate_chain?depth=..: the blocks are read in one transaction and
\* are never updated nor deleted
ValidateChain(w, depth) ==
    /\ Idle(w)
    /\ LET result == ValidateChainIntegrity(blocks, depth) IN
       Goto(w, "idle", [op |-> "validate", ok |-> result.ok, message |-> result.message,
                        block |-> result.block, validation_depth |-> depth])
    /\ UNCHANGED <<store, cache>>

\* GET /info: get_enhanced_chain_info.  Lines 466-477: the cached info if
\* any, else the two COUNTs
InfoStart(w) ==
    /\ Idle(w)
    /\ LET cached == CacheGet(cache, ChainInfoKey) IN
       IF cached # None
       THEN Goto(w, "idle", [op |-> "chain_info", ok |-> TRUE, message |-> "chain_info",
                             info |-> cached[1]])
       ELSE Goto(w, "info_latest",
                 [op |-> "chain_info", chain_length |-> Len(blocks),
                  pending_count |-> Len(pending)])
    /\ UNCHANGED <<store, cache>>

\* line 481, get_latest_block: the cached block if any, else the stored tip
InfoLatest(w) ==
    /\ pc[w] = "info_latest"
    /\ LET cached == CacheGet(cache, LatestBlockKey) IN
       IF cached # None
       THEN Goto(w, "info_difficulty", local[w] @@ [latest_block |-> cached[1]])
       ELSE Goto(w, "info_latest_set", local[w] @@ [latest_block |-> TipRow(blocks)])
    /\ UNCHANGED <<store, cache>>

\* get_latest_block, line 443: cache.set of the row read
InfoLatestCacheSet(w) ==
    /\ pc[w] = "info_latest_set"
    /\ cache' = CacheSet(cache, LatestBlockKey, local[w].latest_block)
    /\ Goto(w, "info_difficulty", local[w])
    /\ UNCHANGED <<store>>

\* lines 482-483: the difficulty and the reward of the next block; an
\* exception leaves the handler, the request fails
InfoDifficulty(w) ==
    /\ pc[w] = "info_difficulty"
    /\ LET next_index == local[w].latest_block.index + 1 IN
       IF RewardOverflows(next_index)
       THEN Return(w, "chain_info", FALSE, "OverflowError")
       ELSE Goto(w, "info_stats",
                 local[w] @@ [current_difficulty |-> CalculateCurrentDifficulty(blocks),
                              current_reward |-> CalculateMiningReward(next_index)])
    /\ UNCHANGED <<store, cache>>

\* lines 486-490: SELECT AVG(mining_time) ... FROM chain_stats.  The table
\* has no column mining_time (database/manager.py:140-148): the statement
\* raises UndefinedColumn, the handler is left before get_stable_coins and
\* cache.set, and the route answers 500.
InfoStats(w) ==
    /\ pc[w] = "info_stats"
    /\ Return(w, "chain_info", FALSE, "Internal server error")
    /\ UNCHANGED <<store, cache>>

\* a cache entry reaches its time to live (setex)
CacheExpire(key) ==
    /\ key \in DOMAIN cache
    /\ cache' = CacheDelete(cache, key)
    /\ UNCHANGED <<store, pc, local>>


\* ------------------------------------------------------------ Stablecoin Registry
\* create_stable_coin: INSERT (UNIQUE symbol), commit, cache.delete
CreateStableCoin(w, symbol_in, max_supply) ==
    /\ Idle(w)
    /\ LET symbol == Upper(symbol_in)
           request == [op |-> "create_coin", symbol |-> symbol_in]
       IN
       IF ~FitsSymbol(symbol)
       THEN /\ Goto(w, "idle", request @@ [ok |-> FALSE,
                                           message |-> "Error creating stablecoin"])
            /\ UNCHANGED <<stable_coins, cache>>
       ELSE IF symbol \in DOMAIN stable_coins
       THEN /\ Goto(w, "idle", request @@ [ok |-> FALSE,
                                           message |-> "StableCoin already exists"])
            /\ UNCHANGED <<stable_coins, cache>>
       ELSE /\ stable_coins' = (symbol :> [symbol |-> symbol, max_supply |-> max_supply,
                                           total_supply |-> 0]) @@ stable_coins
            /\ cache' = CacheDelete(cache, StableCoinsKey)
            /\ Goto(w, "idle", request @@ [ok |-> TRUE, message |-> "StableCoin created"])
    /\ UNCHANGED <<blocks, transactions, pending, balances, authorized_minters,
                   chain_stats, mining_attempts>>

\* faulty variant: ON CONFLICT ... DO UPDATE SET authorizer
InsertMinter_Overwrite(rows, coin_symbol, minter_address, authorizer) ==
    IF \E i \in 1..Len(rows) : /\ rows[i].coin_symbol = coin_symbol
                               /\ rows[i].minter_address = minter_address
    THEN [i \in 1..Len(rows) |->
             IF rows[i].coin_symbol = coin_symbol /\ rows[i].minter_address = minter_address
             THEN [rows[i] EXCEPT !.authorizer = authorizer] ELSE rows[i]]
    ELSE Append(rows, [coin_symbol |-> coin_symbol, minter_address |-> minter_address,
                       authorizer |-> authorizer])

\* INSERT INTO authorized_minters ... ON CONFLICT (coin_symbol, minter_address) DO NOTHING
InsertMinter(rows, coin_symbol, minter_address, authorizer) ==
    IF \E i \in 1..Len(rows) : /\ rows[i].coin_symbol = coin_symbol
                               /\ rows[i].minter_address = minter_address
    THEN rows
    ELSE Append(rows, [coin_symbol |-> coin_symbol, minter_address |-> minter_address,
                       authorizer |-> authorizer])

\* add_authorized_minter, lines 625-634: coin lookup; for an authorizer other
\* than "system", get_balance
AuthorizeStart(w, symbol_in, minter_address, authorizer) ==
    /\ Idle(w)
    /\ LET coin_symbol == Upper(symbol_in)
           vals == [op |-> "authorize", coin_symbol |-> coin_symbol,
                    minter_address |-> minter_address, authorizer |-> authorizer]
       IN  IF coin_symbol \notin DOMAIN stable_coins
           THEN Return(w, "authorize", FALSE, "StableCoin does not exist")
           ELSE IF authorizer = "system"
           THEN Goto(w, "authorize_insert", vals @@ [balance |-> 0])
           ELSE LET got == BalanceLookup(authorizer, CAD) IN
                Goto(w, IF got.hit THEN "authorize_insert" ELSE "authorize_cache_set",
                     vals @@ [balance |-> got.balance])
    /\ UNCHANGED <<store, cache>>

\* get_balance, line 461
AuthorizeCacheSet(w) ==
    /\ pc[w] = "authorize_cache_set"
    /\ cache' = CacheSet(cache, BalanceKey(local[w].authorizer, CAD), local[w].balance)
    /\ Goto(w, "authorize_insert", local[w])
    /\ UNCHANGED <<store>>

\* lines 633-646: the threshold test, the INSERT, commit
AuthorizeInsert(w) ==
    /\ pc[w] = "authorize_insert"
    /\ LET l == local[w] IN
       IF l.authorizer # "system" /\ l.balance < AUTHORIZER_THRESHOLD
       THEN /\ Return(w, "authorize", FALSE, "Insufficient authorization")
            /\ UNCHANGED authorized_minters
       ELSE /\ authorized_minters' = InsertMinter(authorized_minters, l.coin_symbol,
                                                  l.minter_address, l.authorizer)
            \* the response goes to the caller of the route, the authorizer
            /\ Goto(w, "idle", [op |-> "authorize", ok |-> TRUE,
                                message |-> "Minter authorized",
                                authorizer |-> l.authorizer])
    /\ UNCHANGED <<blocks, transactions, pending, balances, stable_coins,
                   chain_stats, mining_attempts, cache>>

\* faulty variant: every address passes
IsAuthorizedMinter_Anyone(rows, coin_symbol, minter) ==
    \/ minter = "system"
    \/ minter \in Users

\* is_authorized_minter
IsAuthorizedMinter(rows, coin_symbol, minter) ==
    \/ minter = "system"
    \/ \E i \in 1..Len(rows) : /\ rows[i].coin_symbol = coin_symbol
                               /\ rows[i].minter_address = minter

\* mint_stable_coin, lines 684: the cap test on the record read at line 673
ExceedsMaxSupply(stable_coin, amount) ==
    /\ stable_coin.max_supply # None
    /\ stable_coin.total_supply + amount > stable_coin.max_supply[1]

\* mint_stable_coin, lines 666-685: the record, the authorization, the cap
MintStart(w, symbol_in, minter, recipient, amount) ==
    /\ Idle(w)
    /\ Now < MaxTime
    /\ Enqueued < MaxTxs
    /\ LET coin_symbol == Upper(symbol_in) IN
       IF amount <= 0 THEN Return(w, "mint", FALSE, "Amount must be positive")
       ELSE IF coin_symbol \notin DOMAIN stable_coins
       THEN Return(w, "mint", FALSE, "StableCoin does not exist")
       ELSE IF ~IsAuthorizedMinter(authorized_minters, coin_symbol, minter)
       THEN Return(w, "mint", FALSE, "Minter not authorized")
       ELSE IF ExceedsMaxSupply(stable_coins[coin_symbol], amount)
       THEN Return(w, "mint", FALSE, "Exceeds max supply")
       ELSE Goto(w, "mint_insert",
                 [op |-> "mint", coin_symbol |-> coin_symbol, minter |-> minter,
                  recipient |-> recipient, amount |-> amount])
    /\ UNCHANGED <<store, cache>>

\* faulty variant: the mint pays the minimum fee whatever its amount
MintingFee_Minimum(amount) == MIN_TRANSACTION_FEE

\* line 688: max(min_transaction_fee, amount * 0.001)
MintingFee(amount) == Max2(MIN_TRANSACTION_FEE, amount \div 1000)

\* lines 688-714: the fee, the mint transaction, INSERT into the mempool,
\* UPDATE total_supply on the row as committed now, commit
MintInsert(w) ==
    /\ pc[w] = "mint_insert"
    /\ LET l == local[w]
           minting_fee == MintingFee(l.amount)
           mint_tx == Transaction(Uuid4(w), "mint", l.recipient, l.amount, l.coin_symbol,
                                  "mint_stable",
                                  [minter |-> l.minter, stable_coin |-> l.coin_symbol],
                                  minting_fee, Now)
       IN  /\ pending' = Append(pending, PendingRow(mint_tx))
           /\ stable_coins' = [stable_coins EXCEPT
                                 ![l.coin_symbol].total_supply = @ + l.amount]
           /\ Return(w, "mint", TRUE, "Mint queued")
    /\ UNCHANGED <<blocks, transactions, balances, authorized_minters,
                   chain_stats, mining_attempts, cache>>

\* ------------------------------------------------------------ specification
MaxSupplies == {None} \cup {Some(m) : m \in MaxSupplyInputs}

Mining(W, miners) == \E w \in W :
    \/ \E miner \in miners : MineStart(w, miner)
    \/ MineDifficulty(w)
    \/ MineBegin(w)
    \/ MineGetLatest(w)
    \/ MineCacheSet(w)
    \/ MinePow(w)
    \/ MineCommit(w)
    \/ MineInvalidate(w)

Transfers(W, senders, receivers, coins) == \E w \in W :
    \/ \E sender \in senders, receiver \in receivers, amount \in AmountInputs,
          coin_type \in coins, fee \in FeeInputs :
              TxStart(w, sender, receiver, amount, coin_type, fee)
    \/ TxCacheSet(w)
    \/ TxCheck(w)
    \/ TxInsert(w)

BalanceQueries(W) == \E w \in W :
    \/ \E a \in Users, c \in Coins : BalanceQuery(w, a, c)
    \/ BalanceCacheSet(w)

LatestBlockQueries(W) == \E w \in W :
    \/ LatestBlockQuery(w)
    \/ LatestCacheSet(w)

Expiry == \E key \in DOMAIN cache : CacheExpire(key)

Creation(W, supplies) == \E w \in W :
    \E symbol \in SymbolInputs, max_supply \in supplies :
          CreateStableCoin(w, symbol, max_supply)

Authorization(W, minters, authorizers) == \E w \in W :
    \/ \E symbol \in SymbolInputs, minter \in minters, authorizer \in authorizers :
          AuthorizeStart(w, symbol, minter, authorizer)
    \/ AuthorizeCacheSet(w)
    \/ AuthorizeInsert(w)

Minting(W, minters, recipients) == \E w \in W :
    \/ \E symbol \in SymbolInputs, minter \in minters, recipient \in recipients,
          amount \in MintAmountInputs :
              MintStart(w, symbol, minter, recipient, amount)
    \/ MintInsert(w)

\* The chain, the mempool and the cache of the tip.  Both workers mine;
\* worker 1 also serves transfers, worker 2 also serves tip queries.
Next ==
    \/ Mining(Workers, Users)
    \/ Transfers({1}, Users, Users, {CAD})
    \/ LatestBlockQueries({2})

Spec == Init /\ [][Next]_vars

\* The stablecoin registry with the chain.  Both workers authorize and mint;
\* worker 1 also creates coins of bounded supply and mines (bob earns the
\* authorizer threshold).
NextRegistry ==
    \/ Mining({1}, {"bob"})
    \/ Creation({1}, MaxSupplies \ {None})
    \/ Authorization(Workers, {"alice"}, {"bob", "system"})
    \/ Minting(Workers, {"alice", "system"}, {"alice"})

SpecRegistry == Init /\ [][NextRegistry]_vars

\* Blocks of transfers and mints.  Worker 1 creates coins and mines; both
\* workers enqueue bob's transfers and system mints while blocks are mined.
NextFees ==
    \/ Mining({1}, {"bob"})
    \/ Creation({1}, MaxSupplies)
    \/ Transfers(Workers, {"bob"}, {"alice"}, {CAD})
    \/ Minting(Workers, {"system"}, {"alice"})

SpecFees == Init /\ [][NextFees]_vars

\* Migration out of the mempool: both workers mine, worker 1 also creates
\* the coin and serves system mints, which need no balance.
NextMigration ==
    \/ Mining(Workers, {"bob"})
    \/ Creation({1}, {None})
    \/ Minting({1}, {"system"}, {"alice"})

SpecMigration == Init /\ [][NextMigration]_vars

\* request inputs that the operations refuse
UnknownCoin == "XYZ"
ShortAddress == "al"
RefusedAmountInputs == {0}
RefusedFeeInputs == {Some(0)}
RefusedSymbolInputs == {"xyz"}

\* Requests with inputs of every kind, valid and refused: worker 1 mines,
\* creates the bounded coin and serves mints, worker 2 serves transfers.
NextRejections ==
    \/ Mining({1}, {"bob"})
    \/ Creation({1}, MaxSupplies \ {None})
    \/ \E symbol \in SymbolInputs \cup RefusedSymbolInputs, minter \in {"system", "alice"},
          amount \in MintAmountInputs \cup RefusedAmountInputs :
              MintStart(1, symbol, minter, "alice", amount)
    \/ MintInsert(1)
    \/ \E sender \in Users, receiver \in {"bob", ShortAddress},
          amount \in AmountInputs \cup RefusedAmountInputs,
          coin_type \in {CAD, UnknownCoin}, fee \in FeeInputs \cup RefusedFeeInputs :
              TxStart(2, sender, receiver, amount, coin_type, fee)
    \/ TxCacheSet(2)
    \/ TxCheck(2)
    \/ TxInsert(2)

SpecRejections == Init /\ [][NextRejections]_vars

\* Authorization by a holder of CAD-COIN: worker 1 mines for either user and
\* creates the coin, worker 2 serves bob's transfers and bob's authorizations
\* of alice.
NextAuthorization ==
    \/ Mining({1}, Users)
    \/ Creation({1}, MaxSupplies \ {None})
    \/ Transfers({2}, {"bob"}, {"alice"}, {CAD})
    \/ Authorization({2}, {"alice"}, {"bob"})

SpecAuthorization == Init /\ [][NextAuthorization]_vars

\* symbols of creation requests: new, in both cases, the seeded coin's, too long
CreationSymbolInputs == {"usdx", "USDX", "cad-coin", LongSymbol}

\* The registry's records under creation requests of every kind by both
\* workers; worker 1 also mines, worker 2 also serves system mints, which
\* raise total_supply.
NextCreation ==
    \/ \E w \in Workers, symbol \in CreationSymbolInputs, max_supply \in MaxSupplies :
          CreateStableCoin(w, symbol, max_supply)
    \/ Mining({1}, {"bob"})
    \/ Minting({2}, {"system"}, {"alice"})

SpecCreation == Init /\ [][NextCreation]_vars

\* mint amounts whose fees differ by less than a second of age (1.9 and 2
\* coins, priority_score 1 and 2) and by more than the age of any entry (4
\* coins), and one that pays the minimum fee (half a coin)
PriorityAmountInputs ==
    {UnitsPerCoin \div 2, (19 * UnitsPerCoin) \div 10, 2 * UnitsPerCoin, 4 * UnitsPerCoin}

\* Selection from a mempool of entries of different fees and ages: worker 1
\* mines and creates the coin, worker 2 serves system mints.
NextPriority ==
    \/ Mining({1}, {"bob"})
    \/ Creation({1}, {None})
    \/ \E amount \in PriorityAmountInputs : MintStart(2, "usdx", "system", "alice", amount)
    \/ MintInsert(2)

SpecPriority == Init /\ [][NextPriority]_vars

ChainInfoQueries(W) == \E w \in W :
    \/ InfoStart(w)
    \/ InfoLatest(w)
    \/ InfoLatestCacheSet(w)
    \/ InfoDifficulty(w)
    \/ InfoStats(w)

\* The inputs of the Difficulty Engine: blocks tables of chains of empty
\* blocks mined by bob.  Block i follows block i - 1 after a gap of g1 seconds
\* up to SwitchIndex and of g2 seconds after it, and carries the difficulty
\* calculate_current_difficulty gives on the blocks before it.
GapInputs == {2, 5, 7, 8, 12, 16, 18, 21, 25}
GapPairs == {<<g, g>> : g \in GapInputs} \cup {<<2, g>> : g \in GapInputs}
SwitchIndex == 12
MaxChain == 24

\* the digest of a drawn block, abbreviated: the pre-image leaves out the
\* transactions and the previous digest
DrawnHash(i, t) ==
    SHA256([index |-> i, transactions |-> <<>>, previous_hash |-> NoHash,
            miner |-> "bob", timestamp |-> t, nonce |-> 0])

DrawnRow(i, t, d, previous_hash) ==
    [index |-> i, hash |-> DrawnHash(i, t), previous_hash |-> previous_hash,
     miner |-> "bob", nonce |-> 0, difficulty |-> d, timestamp |-> t,
     block_size |-> 1, total_fees |-> 0]

RECURSIVE MinedChain(_, _, _)
MinedChain(n, g1, g2) ==
    IF n = 1 THEN <<GenesisRow(0)>>
    ELSE LET prev == MinedChain(n - 1, g1, g2)
             tip == prev[n - 1]
             t == tip.timestamp + (IF n - 1 <= SwitchIndex THEN g1 ELSE g2)
             \* the rows ORDER BY index DESC LIMIT interval + 1 of prev
             rows == [k \in 1..Min2(n - 1, DIFFICULTY_ADJUSTMENT_INTERVAL + 1) |->
                          prev[n - k]]
         IN  Append(prev, DrawnRow(n - 1, t, Retarget(rows), tip.hash))

\* n blocks mined at the target gap: the difficulty never leaves the base
SteadyChain(n) ==
    [k \in 1..n |->
        IF k = 1 THEN GenesisRow(0)
        ELSE DrawnRow(k - 1, TARGET_BLOCK_TIME * (k - 1), BASE_DIFFICULTY,
                      IF k = 2 THEN GenesisHash
                      ELSE DrawnHash(k - 2, TARGET_BLOCK_TIME * (k - 2)))]

\* the first index whose reward cannot be computed
OverflowIndex == FLOAT_MAX_EXP * HALVING_INTERVAL

DrawnChains ==
    {MinedChain(n, p[1], p[2]) : n \in 1..MaxChain, p \in GapPairs}
        \cup {SteadyChain(OverflowIndex)}

\* the tables the two functions do not read are as after construction
InitDifficulty ==
    /\ blocks \in DrawnChains
    /\ transactions = <<>>
    /\ pending = <<>>
    /\ balances = <<>>
    /\ stable_coins = (CAD :> SeedCoin)
    /\ authorized_minters = <<>>
    /\ chain_stats = <<GenesisStats>>
    /\ mining_attempts = <<>>
    /\ cache = <<>>
    /\ pc = [w \in Workers |-> "idle"]
    /\ local = [w \in Workers |-> [op |-> "none", ok |-> TRUE, message |-> "none"]]

\* amounts whose default fee is the floor (half a coin) and above it, and
\* fees left out, below the floor and at the floor
FloorAmountInputs == {UnitsPerCoin \div 2, 60 * UnitsPerCoin}
FloorFeeInputs == {None, Some(0), Some(MIN_TRANSACTION_FEE - 1), Some(MIN_TRANSACTION_FEE)}

\* Transfers with and without an explicit fee: worker 1 mines, worker 2
\* serves bob's transfers.
NextFloor ==
    \/ Mining({1}, {"bob"})
    \/ \E amount \in FloorAmountInputs, fee \in FloorFeeInputs :
          TxStart(2, "bob", "alice", amount, CAD, fee)
    \/ TxCacheSet(2)
    \/ TxCheck(2)
    \/ TxInsert(2)

SpecFloor == Init /\ [][NextFloor]_vars

\* Both ways into the mempool, with recipients of either length: worker 1
\* mines and creates the coin, worker 2 serves bob's transfers and system mints.
NextValidity ==
    \/ Mining({1}, {"bob"})
    \/ Creation({1}, {None})
    \/ Transfers({2}, {"bob"}, {"alice", ShortAddress}, {CAD})
    \/ Minting({2}, {"system"}, {"alice", ShortAddress})

SpecValidity == Init /\ [][NextValidity]_vars

\* Block.mine_block, iteration by iteration.  PowCheckInterval stands for the
\* 100000 attempts between two deadline checks, MaxMiningTime for
\* max_mining_time in clock ticks; at most AttemptsPerTick iterations in a
\* row run without the clock advancing, so that time has passed at every
\* deadline check (line 67 divides by the elapsed time).
PowCheckInterval == 2
MaxMiningTime == 2
AttemptsPerTick == 1

\* faulty variant: the deadline passes when the timeout is reached
DeadlinePassed_AtTimeout(elapsed_time) == elapsed_time >= MaxMiningTime

\* faulty variant: the check is made one attempt after the interval
CheckDue_Late(attempt_count) == attempt_count % PowCheckInterval = 1

\* line 65: attempt_count % 100000 == 0
CheckDue(attempt_count) == attempt_count % PowCheckInterval = 0

\* line 71: elapsed_time > self.max_mining_time
DeadlinePassed(elapsed_time) == elapsed_time > MaxMiningTime

\* the blocks mine_block is called on: the reward-only blocks of bob on the
\* genesis block, of either index, any timestamp and both ends of the
\* difficulty range
PowBlocks ==
    {Block(i, BlockTransactions(<<>>, "bob", BASE_MINING_REWARD, <<1, t>>, t),
           GenesisHash, "bob", d, t) :
        i \in 1..2, t \in 0..3, d \in {BASE_DIFFICULTY, MAX_DIFFICULTY}}

\* lines 45-50: target, start_time, attempt_count = 0
MineBlockStart(w, b) ==
    /\ Idle(w)
    /\ Goto(w, "pow_loop", [op |-> "mine_block", block |-> b, attempt_count |-> 0,
                            elapsed_time |-> 0, since_tick |-> 0])
    /\ UNCHANGED <<store, cache>>

\* lines 53-73: one iteration of the loop, during which the clock advances by
\* d ticks: the digest of the current nonce; with the prefix, success; else
\* the next nonce, and every PowCheckInterval attempts the deadline check
MineBlockTry(w, d) ==
    /\ pc[w] = "pow_loop"
    /\ d = 1 \/ local[w].since_tick < AttemptsPerTick
    /\ LET l == local[w]
           h == CalculateHash(l.block)
           hashed == [l.block EXCEPT !.hash = h]
           attempt_count == l.attempt_count + 1
           elapsed_time == Min2(l.elapsed_time + d, MaxMiningTime + 1)
           next == [l EXCEPT !.block = [hashed EXCEPT !.nonce = @ + 1],
                             !.attempt_count = attempt_count,
                             !.elapsed_time = elapsed_time,
                             !.since_tick = IF d = 1 THEN 0 ELSE @ + 1]
       IN  IF StartsWithZeros(h, l.block.difficulty)
           THEN Goto(w, "idle", [op |-> "mine_block", ok |-> TRUE, message |-> "mined",
                                 block |-> hashed, elapsed_time |-> elapsed_time])
           ELSE IF CheckDue(attempt_count) /\ DeadlinePassed(elapsed_time)
           THEN Goto(w, "idle", [op |-> "mine_block", ok |-> FALSE, message |-> "timeout",
                                 block |-> next.block, elapsed_time |-> elapsed_time])
           ELSE Goto(w, "pow_loop", next)
    /\ UNCHANGED <<store, cache>>

ProofOfWork(W) == \E w \in W :
    \/ \E b \in PowBlocks : MineBlockStart(w, b)
    \/ \E d \in {0, 1} : MineBlockTry(w, d)

\* mine_block applied to the drawn blocks.
NextPow == ProofOfWork({1})

SpecPow == Init /\ [][NextPow]_vars

\* Transaction.is_valid applied to a transaction built from drawn fields
ValidatedAddresses == {"alice", "bob", "al"}
ValidatedAmounts == {0 - 1, 0, 1}
ValidatedFees == {0 - 1, 0, MIN_TRANSACTION_FEE}
TransactionTypes == {"transfer", "mining_reward", "mint_stable"}

IsValidCall(w, sender, receiver, amount, fee, transaction_type) ==
    /\ Idle(w)
    /\ LET tx == Transaction(Uuid4(w), sender, receiver, amount, CAD, transaction_type,
                             NoMetadata, fee, Now)
       IN  Goto(w, "idle", [op |-> "is_valid", tx |-> tx, ok |-> TxIsValid(tx) = "Valid",
                            message |-> TxIsValid(tx)])
    /\ UNCHANGED <<store, cache>>

NextTransaction ==
    \E sender \in ValidatedAddresses, receiver \in ValidatedAddresses,
       amount \in ValidatedAmounts, fee \in ValidatedFees,
       transaction_type \in TransactionTypes :
           IsValidCall(1, sender, receiver, amount, fee, transaction_type)

SpecTransaction == Init /\ [][NextTransaction]_vars

\* the steps of a mining request after its start
MineProceeds(w) ==
    \/ MineDifficulty(w) \/ MineBegin(w) \/ MineGetLatest(w) \/ MineCacheSet(w)
    \/ MinePow(w) \/ MineCommit(w) \/ MineInvalidate(w)

\* A stablecoin in circulation: worker 1 creates the coin and mines, worker 2
\* serves system mints to alice, and both serve alice's transfers of the
\* coin to bob, two of which exceed what one mint gives her.
SupplyAmountInputs == {40 * UnitsPerCoin}

NextSupply ==
    \/ Mining({1}, {"bob"})
    \/ Creation({1}, {None})
    \/ Minting({2}, {"system"}, {"alice"})
    \/ \E w \in Workers :
          \/ \E amount \in SupplyAmountInputs : TxStart(w, "alice", "bob", amount, USDX, None)
          \/ TxCacheSet(w)
          \/ TxCheck(w)
          \/ TxInsert(w)

SpecSupply == Init /\ [][NextSupply]_vars

\* Issuance of CAD-COIN: worker 1 creates the stablecoin and mines, worker 2
\* serves system mints of either coin to alice and her transfers of the
\* stablecoin to bob.
IssuanceSymbolInputs == {"usdx", "cad-coin"}

NextIssuance ==
    \/ Mining({1}, {"bob"})
    \/ Creation({1}, {None})
    \/ \E symbol \in IssuanceSymbolInputs, amount \in MintAmountInputs :
          MintStart(2, symbol, "system", "alice", amount)
    \/ MintInsert(2)
    \/ \E amount \in SupplyAmountInputs : TxStart(2, "alice", "bob", amount, USDX, None)
    \/ TxCacheSet(2)
    \/ TxCheck(2)
    \/ TxInsert(2)

SpecIssuance == Init /\ [][NextIssuance]_vars

\* Mining requests of two workers on a chain whose retarget window is about
\* to fill: DIFFICULTY_ADJUSTMENT_INTERVAL blocks of base difficulty mined by
\* bob one second apart.
FullWindowChain == MinedChain(DIFFICULTY_ADJUSTMENT_INTERVAL, 1, 1)

InitRetarget ==
    /\ blocks = FullWindowChain
    /\ transactions = <<>>
    /\ pending = <<>>
    /\ balances = <<>>
    /\ stable_coins = (CAD :> SeedCoin)
    /\ authorized_minters = <<>>
    /\ chain_stats = <<GenesisStats>>
    /\ mining_attempts = <<>>
    /\ cache = <<>>
    /\ pc = [w \in Workers |-> "idle"]
    /\ local = [w \in Workers |-> [op |-> "none", ok |-> TRUE, message |-> "none"]]

NextRetarget == \E w \in Workers :
    \/ MineStartWithin(w, "bob", Len(FullWindowChain) + MaxTime)
    \/ MineProceeds(w)

SpecRetarget == InitRetarget /\ [][NextRetarget]_vars

\* A worker that calls mine_block and serves mining requests, and keeps
\* running: the interpreter executes the next iteration of the loop and the
\* next statement of the request.
NextTermination == ProofOfWork({1}) \/ Mining({1}, {"bob"})

SpecTermination ==
    /\ Init /\ [][NextTermination]_vars
    /\ WF_vars(\E d \in {0, 1} : MineBlockTry(1, d))
    /\ WF_vars(MineProceeds(1))

\* The store before the first process has built its UltraRobustBlockchain:
\* init_database has created the tables and seeded CAD-COIN
InitFresh ==
    /\ blocks = <<>>
    /\ transactions = <<>>
    /\ pending = <<>>
    /\ balances = <<>>
    /\ stable_coins = (CAD :> SeedCoin)
    /\ authorized_minters = <<>>
    /\ chain_stats = <<>>
    /\ mining_attempts = <<>>
    /\ cache = <<>>
    /\ pc = [w \in Workers |-> "start"]
    /\ local = [w \in Workers |-> [op |-> "none", ok |-> TRUE, message |-> "none"]]

\* Start and restart of the processes; once started, worker 1 mines and
\* worker 2 serves GET /info.
NextGenesis ==
    \/ \E w \in Workers : InitGenesisBlock(w)
    \/ Mining({1}, {"bob"})
    \/ ChainInfoQueries({2})

SpecGenesis == InitFresh /\ [][NextGenesis]_vars

\* The hot cache under mining: worker 1 mines, worker 2 serves tip queries,
\* GET /info and balance queries, and cache entries expire.
NextCache ==
    \/ Mining({1}, {"bob"})
    \/ LatestBlockQueries({2})
    \/ ChainInfoQueries({2})
    \/ BalanceQueries({2})
    \/ Expiry

SpecCache == Init /\ [][NextCache]_vars

\* The inputs of the chain validator: blocks tables of up to MaxValidated
\* blocks mined at the target gap.  The blocks whose index is in stale were
\* built on a cached tip one block old: their previous_hash is the hash of
\* the block at index - 2.
MaxValidated == 6
DepthInputs == {1, 2, 3, MaxValidated}

LinkedChain(n, stale) ==
    [k \in 1..n |->
        IF k = 1 THEN GenesisRow(0)
        ELSE LET p == IF (k - 1) \in stale THEN k - 2 ELSE k - 1 IN
             DrawnRow(k - 1, TARGET_BLOCK_TIME * (k - 1), BASE_DIFFICULTY,
                      IF p = 1 THEN GenesisHash
                      ELSE DrawnHash(p - 1, TARGET_BLOCK_TIME * (p - 1)))]

LinkedChains ==
    {LinkedChain(n, stale) : n \in 1..MaxValidated, stale \in SUBSET (2..(MaxValidated - 1))}

InitValidation ==
    /\ blocks \in LinkedChains
    /\ transactions = <<>>
    /\ pending = <<>>
    /\ balances = <<>>
    /\ stable_coins = (CAD :> SeedCoin)
    /\ authorized_minters = <<>>
    /\ chain_stats = <<GenesisStats>>
    /\ mining_attempts = <<>>
    /\ cache = <<>>
    /\ pc = [w \in Workers |-> "idle"]
    /\ local = [w \in Workers |-> [op |-> "none", ok |-> TRUE, message |-> "none"]]

Validation(W, depths) == \E w \in W : \E depth \in depths : ValidateChain(w, depth)

\* The chain validator applied to the drawn chains by GET /validate_chain.
NextValidation == Validation({1}, DepthInputs)

SpecValidation == InitValidation /\ [][NextValidation]_vars

\* The Difficulty Engine applied to the drawn chains by GET /info.
NextDifficulty == ChainInfoQueries({1})

SpecDifficulty == InitDifficulty /\ [][NextDifficulty]_vars

\* ------------------------------------------------------------ claims
BlockRows == Range(blocks)

\* C1 (chain linkage): every persisted block with index > 0 has a persisted
\* block at index - 1 whose hash is its previous_hash.
ChainLinkage ==
    \A b \in BlockRows : b.index > 0 =>
        \E p \in BlockRows : p.index = b.index - 1 /\ p.hash = b.previous_hash

\* C2 (index monotonicity): the persisted block indices are exactly
\* 0, 1, ..., n with no gap and no duplicate.
IndexMonotonicity ==
    /\ {blocks[i].index : i \in 1..Len(blocks)} = 0..(Len(blocks) - 1)
    /\ \A i, j \in 1..Len(blocks) : blocks[i].index = blocks[j].index => i = j

\* two blocks were committed and a miner racing for a taken index was rolled back
IndexMonotonicityWitness ==
    /\ Len(blocks) >= 3
    /\ \E w \in Workers : /\ pc[w] = "idle" /\ local[w].op = "mine"
                          /\ local[w].message = "Mining error"

\* the worker whose create_transaction commits its INSERT in this step
Inserts(w) == pc[w] = "tx_insert" /\ pc'[w] = "idle" /\ Len(pending') = Len(pending) + 1

\* C3 (admission gate): create_transaction inserts no mempool entry while the
\* sender's stored balance of the coin is below amount + fee.
AdmissionGate ==
    [][\A w \in Workers : Inserts(w) =>
           StoredBalance(balances, local[w].sender, local[w].coin_type)
               >= local[w].amount + local[w].fee]_vars

\* C4 (balance non-negativity): every balance row is >= 0.
BalanceNonNegative ==
    \A k \in DOMAIN balances : balances[k] >= 0

\* C5 (supply cap): total_supply <= max_supply for every stablecoin with a
\* bounded max_supply.
SupplyCap ==
    \A symbol \in DOMAIN stable_coins :
        stable_coins[symbol].max_supply # None =>
            stable_coins[symbol].total_supply <= stable_coins[symbol].max_supply[1]

\* the minter named by a mint_stable row holds an authorization in rows
Authorized(rows, r) ==
    \/ r.metadata.minter = "system"
    \/ \E i \in 1..Len(rows) : /\ rows[i].coin_symbol = r.coin_type
                               /\ rows[i].minter_address = r.metadata.minter

MintRows(rows) == {r \in Range(rows) : r.transaction_type = "mint_stable"}

\* C6 (mint authorization): a mint_stable entry enters the mempool only for a
\* minter that is "system" or holds an authorized_minters row for the coin at
\* that moment, and every mint_stable transaction of a block was such an entry.
MintAuthorization ==
    [][/\ \A r \in MintRows(pending') \ MintRows(pending) :
              Authorized(authorized_minters, r)
       /\ \A r \in MintRows(transactions') \ MintRows(transactions) :
              /\ \E q \in MintRows(pending) : q.tx_id = r.tx_id
              /\ Authorized(authorized_minters, r)]_vars

\* a mint by alice, refused before her authorization, is in a block after it
MintAuthorizationWitness ==
    /\ \E r \in MintRows(transactions) : r.metadata.minter = "alice"
    /\ \E w \in Workers : /\ pc[w] = "idle" /\ local[w].op = "mint"
                          /\ local[w].message = "Minter not authorized"

\* the transactions rows of block i, in insertion order
BlockTxs(i) == SelectSeq(transactions, LAMBDA r : r.block_index = i)

\* max(BASE_MINING_REWARD / 2^(i div HALVING_INTERVAL), 0.1)
BaseReward(i) ==
    Max2(BASE_MINING_REWARD \div Pow2(i \div HALVING_INTERVAL), UnitsPerCoin \div 10)

\* the transactions of block i other than its last
Others(i) == SubSeq(BlockTxs(i), 1, Len(BlockTxs(i)) - 1)

Fees(txs) == SumSeq([k \in 1..Len(txs) |-> txs[k].fee])

\* C7 (reward law): every committed non-genesis block i has exactly one
\* mining_reward transaction, it is the last of the block, and its amount is
\* max(BASE_MINING_REWARD / 2^(i div HALVING_INTERVAL), 0.1) plus the fees of
\* the other transactions of the block.
RewardLaw ==
    \A b \in BlockRows : b.index > 0 =>
        LET txs == BlockTxs(b.index)
            n == Len(txs)
        IN  /\ n >= 1
            /\ txs[n].transaction_type = "mining_reward"
            /\ \A k \in 1..(n - 1) : txs[k].transaction_type # "mining_reward"
            /\ txs[n].amount = BaseReward(b.index) + Fees(Others(b.index))

\* a block past the first halving holds a transfer and a mint, both with fees
RewardLawWitness ==
    \E b \in BlockRows :
        /\ b.index >= HALVING_INTERVAL
        /\ \E k \in 1..Len(Others(b.index)) :
               Others(b.index)[k].transaction_type = "transfer"
        /\ \E k \in 1..Len(Others(b.index)) :
               Others(b.index)[k].transaction_type = "mint_stable"
        /\ Fees(Others(b.index)) > 0

RECURSIVE SumBalances(_, _)
SumBalances(bal, keys) ==
    IF keys = {} THEN 0
    ELSE LET k == CHOOSE x \in keys : TRUE
         IN  bal[k] + SumBalances(bal, keys \ {k})

\* the sum of all balance rows
TotalBalance(bal) == SumBalances(bal, DOMAIN bal)

\* a step that commits a block, and the transactions rows it inserts
CommitsBlock == Len(blocks') = Len(blocks) + 1
Committed == SubSeq(transactions', Len(transactions) + 1, Len(transactions'))
OfType(txs, type) == SelectSeq(txs, LAMBDA r : r.transaction_type = type)
Amounts(txs) == SumSeq([k \in 1..Len(txs) |-> txs[k].amount])
CommittedIndex == blocks'[Len(blocks')].index
RewardAmount == Amounts(OfType(Committed, "mining_reward"))

\* what the block takes out of the balance rows: every transaction of the
\* block credits its amount, so the debits are the credits less the net growth
Debited == Amounts(Committed) - (TotalBalance(balances') - TotalBalance(balances))

\* the amounts credited to the receivers of the transfers and mints of the block
Credited == Amounts(OfType(Committed, "transfer")) + Amounts(OfType(Committed, "mint_stable"))

\* C8 as stated (fee conservation over any mix of transfers and mints): the
\* total debited from senders by a block equals the total amount credited to
\* the receivers of its transactions plus (reward amount - base reward).
FeeConservation ==
    [][CommitsBlock =>
           Debited = Credited + (RewardAmount - BaseReward(CommittedIndex))]_vars

\* C8 (fee conservation, amended): the senders debited by a block are those of
\* its transfers, for amount + fee each, and that total equals the amount
\* credited to the receivers of the transfers plus (reward amount - base
\* reward) less the fees of the mint_stable transactions of the block, which
\* debit no one.
FeeConservationTransfers ==
    [][CommitsBlock =>
           /\ Debited = Amounts(OfType(Committed, "transfer"))
                            + Fees(OfType(Committed, "transfer"))
           /\ Debited = Amounts(OfType(Committed, "transfer"))
                            + (RewardAmount - BaseReward(CommittedIndex))
                            - Fees(OfType(Committed, "mint_stable"))]_vars

\* a committed block holds a transfer and a mint, and both were applied
FeeConservationWitness ==
    \E b \in BlockRows :
        /\ \E r \in Range(BlockTxs(b.index)) :
               /\ r.transaction_type = "transfer"
               /\ StoredBalance(balances, r.receiver, r.coin_type) >= r.amount
        /\ \E r \in Range(BlockTxs(b.index)) :
               /\ r.transaction_type = "mint_stable"
               /\ StoredBalance(balances, r.receiver, r.coin_type) >= r.amount

\* Transaction.to_dict of a transactions row
ToDict(r) ==
    [id |-> r.tx_id, sender |-> r.sender, receiver |-> r.receiver, amount |-> r.amount,
     coin_type |-> r.coin_type, transaction_type |-> r.transaction_type,
     metadata |-> r.metadata, fee |-> r.fee, timestamp |-> r.timestamp]

\* the canonical encoding of a persisted block, from the blocks row and the
\* transactions rows of its index
CanonicalOfRow(b) ==
    [index |-> b.index,
     transactions |-> [k \in 1..Len(BlockTxs(b.index)) |-> ToDict(BlockTxs(b.index)[k])],
     previous_hash |-> b.previous_hash, miner |-> b.miner,
     timestamp |-> b.timestamp, nonce |-> b.nonce]

HashCorrect(b) ==
    /\ b.hash = [sha256 |-> CanonicalOfRow(b)]
    /\ LeadingZeros(b.hash) >= b.difficulty

\* C9 as stated (hash correctness, genesis included): the stored hash of every
\* persisted block is the digest of its canonical encoding and starts with at
\* least difficulty '0' characters.
HashCorrectness ==
    \A b \in BlockRows : HashCorrect(b)

\* C9 (hash correctness, amended): the same for every persisted block of
\* index > 0; the genesis row stores the digest of the fixed genesis text.
HashCorrectnessMined ==
    \A b \in BlockRows :
        IF b.index = 0
        THEN b.hash = [sha256 |-> [text |-> "genesis_block_cad_coin_ultra_robust"]]
        ELSE HashCorrect(b)

\* a persisted block carries a transaction besides the reward and was found
\* after the first nonce
HashCorrectnessWitness ==
    \E b \in BlockRows : /\ b.index > 0 /\ b.nonce > 0
                         /\ Len(BlockTxs(b.index)) >= 2

\* the authorized_minters rows of a (symbol, minter) pair
MinterRows(rows, coin_symbol, minter_address) ==
    {i \in 1..Len(rows) : /\ rows[i].coin_symbol = coin_symbol
                          /\ rows[i].minter_address = minter_address}

\* the worker's add_authorized_minter call reaches its INSERT in this step:
\* the coin exists and the authorizer is "system" or holds the threshold
Authorizes(w) ==
    /\ pc[w] = "authorize_insert" /\ pc'[w] = "idle"
    /\ (local[w].authorizer = "system" \/ local[w].balance >= 100 * UnitsPerCoin)

\* C10 (idempotent minter authorization): add_authorized_minter calls for the
\* same (symbol, minter), by any authorizers and in any interleaving, leave
\* exactly one row for the pair, each call reports success, and the row keeps
\* the authorizer of the first call.
IdempotentAuthorization ==
    [][\A w \in Workers : Authorizes(w) =>
           LET l == local[w]
               before == MinterRows(authorized_minters, l.coin_symbol, l.minter_address)
               after == MinterRows(authorized_minters', l.coin_symbol, l.minter_address)
           IN  /\ local'[w].ok
               /\ Cardinality(after) = 1
               /\ \A i \in after :
                      authorized_minters'[i].authorizer =
                          IF before = {} THEN l.authorizer
                          ELSE authorized_minters[CHOOSE j \in before : TRUE].authorizer]_vars

\* two calls by different authorizers succeeded for one pair, which has one row
IdempotentAuthorizationWitness ==
    /\ \A w \in Workers : /\ pc[w] = "idle" /\ local[w].op = "authorize" /\ local[w].ok
    /\ local[1].authorizer # local[2].authorizer
    /\ Len(authorized_minters) = 1

\* C11 (block size bound): every committed block holds between 1 and
\* MAX_BLOCK_SIZE transactions, the reward transaction included.
BlockSizeBound ==
    \A b \in BlockRows : b.index > 0 =>
        /\ Len(BlockTxs(b.index)) >= 1
        /\ Len(BlockTxs(b.index)) <= MAX_BLOCK_SIZE

\* the worker whose create_transaction leaves its pending-count check in this step
Checks(w) == pc[w] = "tx_check" /\ pc'[w] # "tx_check"

Rejected(w) == pc'[w] = "idle" /\ ~local'[w].ok

\* C12 (mempool capacity): create_transaction rejects whenever the mempool
\* already holds MAX_PENDING_TRANSACTIONS or more entries, and an admitted
\* transfer never leaves more than MAX_PENDING_TRANSACTIONS entries in it.
MempoolCapacity ==
    [][\A w \in Workers :
           /\ (Checks(w) /\ Len(pending) >= MAX_PENDING_TRANSACTIONS) => Rejected(w)
           /\ Inserts(w) => Len(pending') <= MAX_PENDING_TRANSACTIONS]_vars

\* the mempool entries a mining worker selected: its list without the reward
Selected(w) ==
    {local[w].transactions[i].id : i \in 1..(Len(local[w].transactions) - 1)}

\* the worker whose mine_pending_transactions commits in this step
MineCommits(w) == pc[w] = "mine_commit" /\ pc'[w] = "mine_invalidate"

TxIds(rows) == {rows[i].tx_id : i \in DOMAIN rows}

\* C13 (atomic migration): a successful mining request moves every selected
\* entry into the transactions table under the new block's index and deletes
\* it from the mempool in the same step, leaving the other entries in place;
\* no tx_id is ever both pending and in a block, and none is in two blocks.
AtomicMigration ==
    /\ [](/\ TxIds(pending) \cap TxIds(transactions) = {}
          /\ \A i, j \in DOMAIN transactions :
                 i # j => transactions[i].tx_id # transactions[j].tx_id)
    /\ [][\A w \in Workers : MineCommits(w) =>
             /\ \A id \in Selected(w) :
                    /\ \E i \in DOMAIN transactions' :
                           /\ i > Len(transactions)
                           /\ transactions'[i].tx_id = id
                           /\ transactions'[i].block_index = local[w].next_index
                    /\ id \notin TxIds(pending')
             /\ pending' = SelectSeq(pending, LAMBDA r : r.tx_id \notin Selected(w))]_vars

\* a second mining request holds entries that another request has migrated
\* meanwhile, facing a free block index, while an unselected entry is pending
AtomicMigrationWitness ==
    /\ pending # <<>>
    /\ \E w \in Workers :
           /\ pc[w] = "mine_commit"
           /\ local[w].next_index = Len(blocks)
           /\ Selected(w) \cap TxIds(transactions) # {}

\* the worker whose mine_pending_transactions fails at its commit in this step
MineLoses(w) == pc[w] = "mine_commit" /\ pc'[w] = "idle"

\* C14 (concurrent mining): of two mining requests that built blocks at the
\* same index at most one commits; every committed block has an index above
\* all the indices committed before it, and the request that loses changes
\* no block, transaction, balance or mempool row.
ConcurrentMining ==
    [][/\ CommitsBlock =>
              \A i \in 1..Len(blocks) : blocks[i].index < blocks'[Len(blocks')].index
       /\ \A w \in Workers : MineLoses(w) =>
              UNCHANGED <<blocks, transactions, balances, pending>>]_vars

\* both workers built block 1; one has committed it, the other was rolled back
ConcurrentMiningWitness ==
    /\ Len(blocks) = 2
    /\ \E w, v \in Workers :
           /\ pc[w] = "mine_invalidate" /\ local[w].next_index = 1
           /\ pc[v] = "idle" /\ local[v].op = "mine"
           /\ local[v].message = "Mining error"

\* C15 (contention logging): a mining request whose commit fails on a
\* uniqueness conflict returns an error and leaves in mining_attempts a row
\* with its block index and miner and success = false.
ContentionLogging ==
    [][\A w \in Workers : MineLoses(w) =>
           /\ ~local'[w].ok
           /\ \E i \in DOMAIN mining_attempts' :
                  /\ mining_attempts'[i].block_index = local[w].next_index
                  /\ mining_attempts'[i].miner = local[w].miner
                  /\ mining_attempts'[i].success = FALSE]_vars

\* the worker whose nonce search gives up in this step
MineTimesOut(w) ==
    /\ pc[w] = "mine_pow" /\ pc'[w] = "idle"
    /\ local'[w].message = "Mining failed or timed out"

\* C16 (PoW timeout): a mining request whose nonce search times out returns
\* an error and stores its mining-attempt row with success = false and an
\* end_time; blocks, transactions, balances, mempool, chain stats and
\* stablecoin records stay as they were.
PowTimeout ==
    [][\A w \in Workers : MineTimesOut(w) =>
           /\ ~local'[w].ok
           /\ Len(mining_attempts') = Len(mining_attempts) + 1
           /\ LET r == mining_attempts'[Len(mining_attempts')] IN
                  /\ r.block_index = local[w].next_index
                  /\ r.miner = local[w].miner
                  /\ r.success = FALSE
                  /\ r.end_time # None
           /\ UNCHANGED <<blocks, transactions, pending, balances, chain_stats,
                          stable_coins, authorized_minters>>]_vars

\* a mining request has timed out while the mempool held an entry and a
\* stablecoin existed
PowTimeoutWitness ==
    /\ pending # <<>>
    /\ USDX \in DOMAIN stable_coins
    /\ \E w \in Workers :
           /\ pc[w] = "idle" /\ local[w].op = "mine"
           /\ local[w].message = "Mining failed or timed out"
    /\ \E i \in DOMAIN mining_attempts :
           mining_attempts[i].success = FALSE /\ mining_attempts[i].end_time # None

\* the worker that returns from create_transaction or mint_stable_coin with
\* a refusal in this step
Refuses(w) ==
    /\ pc'[w] = "idle"
    /\ pc[w] # "idle" \/ local'[w] # local[w]
    /\ local'[w].op \in {"transfer", "mint"}
    /\ ~local'[w].ok

\* C17 (rejections change nothing): a create_transaction or mint_stable_coin
\* that is refused leaves the mempool, the balances and every total_supply
\* as they were.
RejectionsChangeNothing ==
    [][\A w \in Workers : Refuses(w) =>
           /\ pending' = pending
           /\ balances' = balances
           /\ stable_coins' = stable_coins]_vars

\* a transfer was refused by is_valid and a mint by the supply cap, with an
\* entry in the mempool and a balance stored
RejectionsChangeNothingWitness ==
    /\ pending # <<>>
    /\ DOMAIN balances # {}
    /\ pc[2] = "idle" /\ local[2].op = "transfer"
    /\ local[2].message \in {"Invalid address format", "Cannot transfer to self"}
    /\ pc[1] = "idle" /\ local[1].op = "mint"
    /\ local[1].message = "Exceeds max supply"

\* the worker to which calculate_current_difficulty and
\* calculate_mining_reward return in this step
InfoComputes(w) == pc[w] = "info_difficulty" /\ pc'[w] = "info_stats"

\* the newest and the oldest of the most recent interval + 1 blocks (the
\* table is in index order)
Newest == blocks[Len(blocks)]
Oldest == blocks[Len(blocks) - DIFFICULTY_ADJUSTMENT_INTERVAL]

\* the retarget table on the mean inter-block time M = span / intervals
RetargetRule ==
    LET span == Newest.timestamp - Oldest.timestamp
        intervals == DIFFICULTY_ADJUSTMENT_INTERVAL
        d0 == Newest.difficulty
        T == TARGET_BLOCK_TIME
    IN  IF 2 * span < T * intervals THEN Min2(d0 + 2, MAX_DIFFICULTY)
        ELSE IF 10 * span < 8 * T * intervals THEN Min2(d0 + 1, MAX_DIFFICULTY)
        ELSE IF 2 * span <= 3 * T * intervals THEN d0
        ELSE IF span <= 2 * T * intervals THEN Max2(d0 - 1, BASE_DIFFICULTY)
        ELSE Max2(d0 - 2, BASE_DIFFICULTY)

\* C18 (difficulty retarget): with a full window of
\* DIFFICULTY_ADJUSTMENT_INTERVAL + 1 blocks calculate_current_difficulty
\* returns the entry of the retarget table for the mean inter-block time of
\* the window, newest minus oldest timestamp over the number of intervals.
DifficultyRetarget ==
    [][\A w \in Workers :
           (InfoComputes(w) /\ Len(blocks) >= DIFFICULTY_ADJUSTMENT_INTERVAL + 1) =>
               local'[w].current_difficulty = RetargetRule]_vars

\* C19 (difficulty before the window is full): while fewer than
\* DIFFICULTY_ADJUSTMENT_INTERVAL + 1 blocks are persisted
\* calculate_current_difficulty returns BASE_DIFFICULTY whatever the
\* timestamps, and every block committed in that phase has that difficulty.
DifficultyBeforeWindow ==
    /\ [][\A w \in Workers :
             (InfoComputes(w) /\ Len(blocks) < DIFFICULTY_ADJUSTMENT_INTERVAL + 1) =>
                 local'[w].current_difficulty = BASE_DIFFICULTY]_vars
    /\ [](\A i \in DOMAIN blocks :
              blocks[i].index <= DIFFICULTY_ADJUSTMENT_INTERVAL =>
                  blocks[i].difficulty = BASE_DIFFICULTY)

\* BASE_MINING_REWARD / 2^(i div HALVING_INTERVAL), floored at 0.1
HalvedReward(i) ==
    LET halvings == i \div HALVING_INTERVAL IN
    IF halvings > 30 THEN MIN_REWARD
    ELSE Max2(BASE_MINING_REWARD \div Pow2(halvings), MIN_REWARD)

\* C20 (halving schedule): for every index i >= 0 calculate_mining_reward(i)
\* returns max(BASE_MINING_REWARD / 2^(i div HALVING_INTERVAL), 0.1), which
\* is never below 0.1 and never above the reward of index i - 1.
HalvingSchedule ==
    [][\A w \in Workers :
           (pc[w] = "info_difficulty" /\ pc'[w] # "info_difficulty") =>
               LET i == local[w].latest_block.index + 1 IN
               /\ InfoComputes(w)
               /\ local'[w].current_reward = HalvedReward(i)
               /\ local'[w].current_reward >= MIN_REWARD
               /\ local'[w].current_reward <= HalvedReward(i - 1)]_vars

\* the balance of a key, a missing row counting as 0
BalanceOrZero(bal, k) == IF k \in DOMAIN bal THEN bal[k] ELSE 0

\* the balance rows after one delta on a key
WithDelta(bal, k, d) == (k :> BalanceOrZero(bal, k) + d) @@ bal

\* the balance rows after the deltas of the transactions rows txs, in order
RECURSIVE BalancesAfter(_, _)
BalancesAfter(txs, bal) ==
    IF txs = <<>> THEN bal
    ELSE LET r == Head(txs)
             credited == WithDelta(IF r.transaction_type = "transfer"
                                   THEN WithDelta(bal, <<r.sender, r.coin_type>>,
                                                  0 - (r.amount + r.fee))
                                   ELSE bal,
                                   <<r.receiver, r.coin_type>>, r.amount)
         IN  BalancesAfter(Tail(txs), credited)

\* C21 (balance effect of a block): committing a block changes the balances
\* by, per transaction in order, sender minus (amount + fee) and receiver plus
\* amount for a transfer, receiver plus amount for a mining reward or a mint;
\* a missing row counts as 0 and every other row is unchanged.
BalanceEffect ==
    [][CommitsBlock => balances' = BalancesAfter(Committed, balances)]_vars

\* a transfer and a mint have been committed: the sender was debited, the
\* receiver holds rows of both coins
BalanceEffectWitness ==
    /\ \E i \in DOMAIN transactions : transactions[i].transaction_type = "mint_stable"
    /\ \E i \in DOMAIN transactions :
           LET r == transactions[i] IN
           /\ r.transaction_type = "transfer"
           /\ <<r.receiver, CAD>> \in DOMAIN balances
           /\ <<r.receiver, USDX>> \in DOMAIN balances
           /\ <<r.sender, CAD>> \in DOMAIN balances
           /\ balances[<<r.sender, CAD>>] < BASE_MINING_REWARD

\* the worker to which validate_chain_integrity returns in this step
Validates(w) ==
    pc[w] = "idle" /\ pc'[w] = "idle" /\ local'[w].op = "validate" /\ local'[w] # local[w]

\* the highest persisted index
TipIndex == CHOOSE m \in {b.index : b \in BlockRows} : \A b \in BlockRows : b.index <= m

\* the non-genesis blocks among the depth highest-index blocks whose
\* previous_hash is not the hash of the persisted block at index - 1
BrokenLinks(depth) ==
    {b \in BlockRows :
        /\ b.index > TipIndex - depth
        /\ b.index > 0
        /\ ~\E p \in BlockRows : p.index = b.index - 1 /\ p.hash = b.previous_hash}

\* C22 (chain validator): validate_chain_integrity(D), D >= 1, returns valid
\* exactly when no non-genesis block among the D highest-index blocks breaks
\* the link to the persisted block at index - 1; when it returns false it
\* names the highest-index breaking block of the window; the store is
\* unchanged.
ChainValidator ==
    [][\A w \in Workers : Validates(w) =>
           LET broken == BrokenLinks(local'[w].validation_depth) IN
           /\ local'[w].ok <=> broken = {}
           /\ ~local'[w].ok =>
                  /\ local'[w].block # None
                  /\ \E b \in broken : /\ b.index = local'[w].block[1]
                                       /\ \A q \in broken : q.index <= b.index
           /\ UNCHANGED store]_vars

\* the validator passed a window that lies above a broken link and whose
\* lowest block has its predecessor outside the window
ChainValidatorWitness ==
    /\ pc[1] = "idle" /\ local[1].op = "validate" /\ local[1].ok
    /\ local[1].validation_depth < Len(blocks) - 1
    /\ BrokenLinks(MaxValidated) # {}

\* the validator named the higher of two broken links
ChainValidatorNamesWitness ==
    /\ pc[1] = "idle" /\ local[1].op = "validate" /\ ~local[1].ok
    /\ Cardinality(BrokenLinks(local[1].validation_depth)) >= 2

\* the worker whose mining request reads the mempool in this step
Selects(w) == pc[w] = "idle" /\ pc'[w] = "mine_difficulty"

\* fee + age in hours of a mempool entry at time now, times 3600 * UnitsPerCoin
EffectivePriority(row, now) == 3600 * row.fee + UnitsPerCoin * (now - row.timestamp)

\* the position of a mempool entry in insertion order
InsertedAt(row) == CHOOSE i \in DOMAIN pending : pending[i] = row

\* row r comes before row s in the order (fee + age in hours) descending,
\* insertion time ascending
Before(r, s, now) ==
    \/ EffectivePriority(r, now) > EffectivePriority(s, now)
    \/ /\ EffectivePriority(r, now) = EffectivePriority(s, now)
       /\ InsertedAt(r) < InsertedAt(s)

\* C23 (priority selection): the entries a mining request takes are the
\* first min(MAX_BLOCK_SIZE, mempool size) entries of the mempool in the
\* order (fee + age in hours) descending, insertion time ascending, listed in
\* that order; every entry left behind comes after every entry taken; the
\* block is built from the entries taken, in that order.  priority_score
\* does not occur in the order.
PrioritySelection ==
    [][\A w \in Workers :
          /\ Selects(w) =>
                LET taken == local'[w].pending_txs_data
                    t == Now
                IN  /\ Len(taken) = Min2(MAX_BLOCK_SIZE, Len(pending))
                    /\ \A k \in DOMAIN taken : taken[k] \in Range(pending)
                    /\ \A k \in 1..(Len(taken) - 1) : Before(taken[k], taken[k + 1], t)
                    /\ \A r \in Range(pending) \ Range(taken) :
                           \A k \in DOMAIN taken :
                               /\ EffectivePriority(r, t) <= EffectivePriority(taken[k], t)
                               /\ Before(taken[k], r, t)
          /\ (pc[w] = "mine_begin" /\ pc'[w] = "mine_latest") =>
                /\ Len(local'[w].transactions) = Len(local[w].pending_txs_data) + 1
                /\ \A k \in DOMAIN local[w].pending_txs_data :
                       local'[w].transactions[k].id = local[w].pending_txs_data[k].tx_id]_vars

\* a selection took the entry of the highest fee, the youngest, and then the
\* oldest entry, and left behind an entry of a higher fee and a higher
\* priority_score than the oldest
PrioritySelectionWitness ==
    \E w \in Workers :
        /\ pc[w] = "mine_difficulty"
        /\ Len(local[w].pending_txs_data) = MAX_BLOCK_SIZE
        /\ \E r \in Range(pending) \ Range(local[w].pending_txs_data) :
               LET first == local[w].pending_txs_data[1]
                   second == local[w].pending_txs_data[2]
               IN  /\ first.timestamp > r.timestamp
                   /\ first.fee > r.fee
                   /\ second.timestamp < r.timestamp
                   /\ second.fee < r.fee
                   /\ second.priority_score < r.priority_score

\* the indices of the blocks whose mining request has returned (the genesis
\* block included), and the highest of them
ReturnedIndices ==
    {b.index : b \in BlockRows}
        \ {local[w].next_index : w \in {v \in Workers : pc[v] = "mine_invalidate"}}
ReturnedTip == CHOOSE m \in ReturnedIndices : \A i \in ReturnedIndices : i <= m

\* the rewards of the returned blocks of a miner
ReturnedRewards(miner) ==
    Amounts(SelectSeq(transactions,
                      LAMBDA r : /\ r.transaction_type = "mining_reward"
                                 /\ r.receiver = miner
                                 /\ r.block_index \in ReturnedIndices))

\* C24 (cache invalidation on commit): once a successful mining request has
\* returned, the hot cache holds no entry for the latest block, for chain
\* info or for the miner's balance that lacks the new block, so that the next
\* tip, chain-info and miner balance queries include it.  (Where no
\* transfer debits the miner, a cached CAD-COIN balance includes a block
\* when it is at least the rewards up to that block.)
CacheInvalidation ==
    /\ LatestBlockKey \in DOMAIN cache => cache[LatestBlockKey].index >= ReturnedTip
    /\ ChainInfoKey \in DOMAIN cache => cache[ChainInfoKey].chain_length > ReturnedTip
    /\ \A miner \in Users :
          BalanceKey(miner, CAD) \in DOMAIN cache =>
              cache[BalanceKey(miner, CAD)] >= ReturnedRewards(miner)

\* the worker to which create_stable_coin returns in this step
Creates(w) ==
    pc[w] = "idle" /\ pc'[w] = "idle" /\ local'[w].op = "create_coin" /\ local'[w] # local[w]

\* the requested symbol after upper-casing
UpperCased(s) == IF s = "usdx" THEN USDX ELSE IF s = "cad-coin" THEN CAD ELSE s

\* create_stable_coin fails with "StableCoin already exists" and changes no record
CreationRefused(w) ==
    /\ ~local'[w].ok
    /\ local'[w].message = "StableCoin already exists"
    /\ stable_coins' = stable_coins

\* create_stable_coin adds exactly the record of symbol, with total_supply 0
CreationAdds(w, symbol) ==
    /\ local'[w].ok
    /\ DOMAIN stable_coins' = DOMAIN stable_coins \cup {symbol}
    /\ stable_coins'[symbol].symbol = symbol
    /\ stable_coins'[symbol].total_supply = 0
    /\ \A c \in DOMAIN stable_coins : stable_coins'[c] = stable_coins[c]

\* records are never deleted
RecordsKept == DOMAIN stable_coins \subseteq DOMAIN stable_coins'

\* C25 as stated (stablecoin creation): create_stable_coin fails with
\* "StableCoin already exists" and changes no record whenever a record of the
\* upper-cased symbol exists; otherwise it adds exactly one record with
\* total_supply 0; records are never deleted.
StableCoinCreation ==
    [][/\ RecordsKept
       /\ \A w \in Workers : Creates(w) =>
              LET symbol == UpperCased(local'[w].symbol) IN
              IF symbol \in DOMAIN stable_coins THEN CreationRefused(w)
              ELSE CreationAdds(w, symbol)]_vars

\* C25 amended: the same, where a symbol without a record gives a new record
\* when it fits the symbol column; a longer one is refused and changes nothing.
StableCoinCreationFitting ==
    [][/\ RecordsKept
       /\ \A w \in Workers : Creates(w) =>
              LET symbol == UpperCased(local'[w].symbol) IN
              IF symbol \in DOMAIN stable_coins THEN CreationRefused(w)
              ELSE IF symbol # LongSymbol THEN CreationAdds(w, symbol)
              ELSE ~local'[w].ok /\ stable_coins' = stable_coins]_vars

\* a creation was refused for the lower-case symbol of a coin that has
\* minted supply, and one for the seeded coin
StableCoinCreationWitness ==
    /\ USDX \in DOMAIN stable_coins
    /\ stable_coins[USDX].total_supply > 0
    /\ \E w, v \in Workers :
          /\ pc[w] = "idle" /\ local[w].op = "create_coin"
          /\ local[w].symbol = "usdx" /\ local[w].message = "StableCoin already exists"
          /\ pc[v] = "idle" /\ local[v].op = "create_coin"
          /\ local[v].symbol = "cad-coin" /\ local[v].message = "StableCoin already exists"

\* C26 (minter authorization preconditions): add_authorized_minter fails and
\* adds no row when the coin does not exist, and for an authorizer other than
\* "system" it adds a row only if the authorizer's stored CAD-COIN balance at
\* that moment is at least the threshold.
AuthorizationPreconditions ==
    [][\A w \in Workers :
          /\ (pc[w] = "idle" /\ pc'[w] = "idle" /\ local'[w].op = "authorize"
                 /\ local'[w].message = "StableCoin does not exist") =>
                 ~local'[w].ok /\ authorized_minters' = authorized_minters
          /\ (pc[w] = "authorize_insert" /\ Len(authorized_minters') > Len(authorized_minters)) =>
                 /\ local[w].coin_symbol \in DOMAIN stable_coins
                 /\ \/ local[w].authorizer = "system"
                    \/ StoredBalance(balances, local[w].authorizer, CAD) >= AUTHORIZER_THRESHOLD]_vars

\* the worker whose mint_stable_coin commits and returns success in this step
Mints(w) == pc[w] = "mint_insert" /\ pc'[w] = "idle" /\ local'[w].ok

\* C27 (mint enqueue): a successful mint_stable_coin adds, in one step,
\* exactly one mempool entry, a mint_stable transaction to the recipient in
\* the coin with fee max(MIN_TRANSACTION_FEE, amount / 1000) and
\* metadata.minter the minter, and raises the coin's total_supply by the
\* amount; no step lowers a total_supply; balances change only in the step
\* that commits a block.
MintEnqueue ==
    [][/\ \A w \in Workers : Mints(w) =>
              LET l == local[w]
                  row == pending'[Len(pending')]
              IN  /\ Len(pending') = Len(pending) + 1
                  /\ SubSeq(pending', 1, Len(pending)) = pending
                  /\ row.transaction_type = "mint_stable"
                  /\ row.receiver = l.recipient
                  /\ row.coin_type = l.coin_symbol
                  /\ row.amount = l.amount
                  /\ row.fee = (IF l.amount \div 1000 > MIN_TRANSACTION_FEE
                                THEN l.amount \div 1000 ELSE MIN_TRANSACTION_FEE)
                  /\ row.metadata.minter = l.minter
                  /\ stable_coins'[l.coin_symbol].total_supply =
                         stable_coins[l.coin_symbol].total_supply + l.amount
                  /\ \A c \in DOMAIN stable_coins \ {l.coin_symbol} :
                         stable_coins'[c] = stable_coins[c]
       /\ \A w \in Workers :
              (pc'[w] = "idle" /\ local'[w].op = "mint" /\ local'[w].ok /\ local'[w] # local[w])
                  => Mints(w)
       /\ \A c \in DOMAIN stable_coins :
              /\ c \in DOMAIN stable_coins'
              /\ stable_coins'[c].total_supply >= stable_coins[c].total_supply
       /\ balances' # balances => CommitsBlock]_vars

\* a mint of the minimum fee and one of a proportional fee are pending, their
\* amounts are in total_supply and no balance row holds the coin, and an
\* earlier mint was committed in a block and credited
MintEnqueueWitness ==
    /\ \E i, j \in DOMAIN pending :
          /\ pending[i].transaction_type = "mint_stable"
          /\ pending[i].fee = MIN_TRANSACTION_FEE
          /\ pending[j].transaction_type = "mint_stable"
          /\ pending[j].fee > MIN_TRANSACTION_FEE
    /\ \E r \in Range(transactions) : r.transaction_type = "mint_stable"
    /\ <<"alice", USDX>> \in DOMAIN balances
    /\ stable_coins[USDX].total_supply > balances[<<"alice", USDX>>]

\* the worker whose process runs init_genesis_block in this step
Initialises(w) ==
    /\ pc'[w] = "idle" /\ local'[w].op = "init"
    /\ (pc[w] = "start" \/ (pc[w] = "idle" /\ local'[w] # local[w]))

\* the worker to which get_enhanced_chain_info returns, or which it leaves
\* by an exception, in this step
InfoReturns(w) == pc[w] # "idle" /\ local[w].op = "chain_info" /\ pc'[w] = "idle"

\* C28 (genesis): on an empty blocks table initialisation creates exactly
\* one block (index 0, previous_hash "0", miner "genesis", nonce 0, difficulty
\* BASE_DIFFICULTY) and its chain_stats row, and a chain-info query on that
\* store reports chain_length 1, current_difficulty BASE_DIFFICULTY and
\* pending_transactions 0; initialisation on a non-empty chain changes nothing.
Genesis ==
    [][\A w \in Workers :
          /\ Initialises(w) =>
                IF blocks = <<>>
                THEN /\ Len(blocks') = 1
                     /\ blocks'[1].index = 0
                     /\ blocks'[1].previous_hash = ZeroHash
                     /\ blocks'[1].miner = "genesis"
                     /\ blocks'[1].nonce = 0
                     /\ blocks'[1].difficulty = BASE_DIFFICULTY
                     /\ Len(chain_stats') = 1
                     /\ chain_stats'[1].block_index = 0
                     /\ UNCHANGED <<transactions, pending, balances, stable_coins,
                                    authorized_minters, mining_attempts>>
                ELSE UNCHANGED store
          /\ (InfoReturns(w) /\ Len(blocks) = 1 /\ pending = <<>>) =>
                /\ local'[w].ok
                /\ local[w].chain_length = 1
                /\ local[w].current_difficulty = BASE_DIFFICULTY
                /\ local[w].pending_count = 0]_vars

\* Transaction validation of a mempool entry: amount > 0, fee >= 0, sender
\* and receiver of length >= 3, no transfer to self
PassesValidation(row) ==
    /\ row.amount > 0
    /\ row.fee >= 0
    /\ Len(row.sender) >= 3
    /\ Len(row.receiver) >= 3
    /\ ~(row.transaction_type = "transfer" /\ row.sender = row.receiver)

\* C29 (the mempool holds only validated transactions): every mempool entry,
\* enqueued by create_transaction or by mint_stable_coin, passes Transaction
\* validation.
MempoolValidated == \A i \in DOMAIN pending : PassesValidation(pending[i])

\* max(MIN_TRANSACTION_FEE, amount x 0.001)
FlooredFee(amount) ==
    IF amount \div 1000 >= MIN_TRANSACTION_FEE THEN amount \div 1000 ELSE MIN_TRANSACTION_FEE

\* C30 (fee floor and default fee): create_transaction called without a
\* fee goes on with fee max(MIN_TRANSACTION_FEE, amount x 0.001); called with
\* an explicit fee below MIN_TRANSACTION_FEE it is rejected and enqueues
\* nothing; every transfer entry of the mempool has fee >= MIN_TRANSACTION_FEE.
FeeFloor ==
    /\ [][\A w \in Workers : \A amount \in FloorAmountInputs, fee \in FloorFeeInputs :
             TxStart(w, "bob", "alice", amount, CAD, fee) =>
                 IF fee = None
                 THEN pc'[w] # "idle" /\ local'[w].fee = FlooredFee(amount)
                 ELSE IF fee[1] < MIN_TRANSACTION_FEE
                 THEN /\ pc'[w] = "idle"
                      /\ ~local'[w].ok
                      /\ local'[w].message = "Fee too low"
                      /\ pending' = pending
                 ELSE pc'[w] # "idle" /\ local'[w].fee = fee[1]]_vars
    /\ [](\A i \in DOMAIN pending :
              pending[i].transaction_type = "transfer" =>
                  pending[i].fee >= MIN_TRANSACTION_FEE)

\* the mempool holds a transfer of half a coin at the floor fee and one of a
\* proportional fee, and a transfer was refused for its fee
FeeFloorWitness ==
    /\ \E i, j \in DOMAIN pending :
          /\ pending[i].transaction_type = "transfer"
          /\ pending[i].amount = UnitsPerCoin \div 2
          /\ pending[i].fee = MIN_TRANSACTION_FEE
          /\ pending[j].transaction_type = "transfer"
          /\ pending[j].fee > MIN_TRANSACTION_FEE
    /\ pc[2] = "idle" /\ local[2].op = "transfer" /\ local[2].message = "Fee too low"

\* the worker whose mining request leaves its proof-of-work step in this step
LeavesPow(w) == pc[w] = "mine_pow" /\ pc'[w] # "mine_pow"

\* C31 (validation failure after proof of work): a mining request whose
\* proof of work succeeded goes on to persist its block only when the block
\* passes validation; when validation fails it returns an error and persists
\* no block, no transactions row, no chain_stats row and no balance change,
\* and deletes nothing from the mempool.
ValidationFailure ==
    [][\A w \in Workers : LeavesPow(w) =>
          /\ UNCHANGED <<blocks, transactions, chain_stats, balances, pending>>
          /\ IF \A k \in DOMAIN local[w].transactions : PassesValidation(local[w].transactions[k])
             THEN pc'[w] = "mine_commit"
                      \/ (pc'[w] = "idle" /\ local'[w].message = "Mining failed or timed out")
             ELSE /\ pc'[w] = "idle"
                  /\ ~local'[w].ok
                  /\ local'[w].message \in {"Block validation failed",
                                            "Mining failed or timed out"}]_vars

\* a mining request failed validation on a mint to a short address, which is
\* still in the mempool; no block was persisted
ValidationFailureWitness ==
    /\ \E w \in Workers : /\ pc[w] = "idle" /\ local[w].op = "mine"
                          /\ local[w].message = "Block validation failed"
    /\ \E i \in DOMAIN pending : Len(pending[i].receiver) < 3
    /\ Len(blocks) = 1
    /\ transactions = <<>>

\* the digest of block b at nonce n
DigestAt(b, n) == [sha256 |-> [index |-> b.index, transactions |-> b.transactions,
                               previous_hash |-> b.previous_hash, miner |-> b.miner,
                               timestamp |-> b.timestamp, nonce |-> n]]

\* the digest has difficulty leading zero characters
HasPrefix(h, difficulty) == LeadingZeros(h) >= difficulty

\* the worker to which mine_block returns in this step
PowReturns(w) == pc[w] = "pow_loop" /\ pc'[w] = "idle"

\* C32 (proof-of-work search): mine_block starts at nonce 0 and tries the
\* nonces in order; it returns success only with hash the digest of the
\* block at its nonce, with the prefix of difficulty zeros, and with no
\* smaller nonce whose digest has the prefix; it returns failure only when
\* the elapsed time exceeds the timeout.
PowSearch ==
    [][\A w \in Workers :
          /\ (pc[w] = "idle" /\ pc'[w] = "pow_loop") => local'[w].block.nonce = 0
          /\ (pc[w] = "pow_loop" /\ pc'[w] = "pow_loop") =>
                 /\ local'[w].block.nonce = local[w].block.nonce + 1
                 /\ ~HasPrefix(DigestAt(local[w].block, local[w].block.nonce),
                               local[w].block.difficulty)
          /\ (PowReturns(w) /\ local'[w].ok) =>
                 LET b == local'[w].block IN
                 /\ b.hash = DigestAt(b, b.nonce)
                 /\ HasPrefix(b.hash, b.difficulty)
                 /\ \A n \in 0..(b.nonce - 1) : ~HasPrefix(DigestAt(b, n), b.difficulty)
          /\ (PowReturns(w) /\ ~local'[w].ok) =>
                 local'[w].elapsed_time > MaxMiningTime]_vars

\* a search succeeded at a nonce above the first deadline check, within the
\* timeout
PowSearchWitness ==
    /\ pc[1] = "idle" /\ local[1].op = "mine_block" /\ local[1].ok
    /\ local[1].block.nonce > PowCheckInterval
    /\ local[1].elapsed_time = MaxMiningTime

\* a search failed at a deadline check
PowSearchFailureWitness ==
    /\ pc[1] = "idle" /\ local[1].op = "mine_block" /\ ~local[1].ok

\* C33 (proof-of-work termination): with the clock advancing, every call of
\* mine_block returns success or failure; an iteration that finds no prefix
\* and is a deadline check (every PowCheckInterval attempts) with the elapsed
\* time above the timeout returns failure, and every mining request
\* eventually returns.
PowTermination ==
    /\ [][\A w \in Workers :
             (/\ pc[w] = "pow_loop" /\ local'[w] # local[w]
              /\ ~HasPrefix(DigestAt(local[w].block, local[w].block.nonce),
                            local[w].block.difficulty)
              /\ (local[w].attempt_count + 1) % PowCheckInterval = 0
              /\ local'[w].elapsed_time > MaxMiningTime)
                 => (PowReturns(w) /\ ~local'[w].ok)]_vars
    /\ \A w \in Workers : (pc[w] # "idle") ~> (pc[w] = "idle")

\* mine_block returned failure on a header no nonce satisfies, after a
\* mining request had returned with its block
PowTerminationWitness ==
    /\ pc[1] = "idle" /\ local[1].op = "mine_block" /\ ~local[1].ok
    /\ HardHeader(local[1].block)
    /\ local[1].elapsed_time > MaxMiningTime
    /\ Len(blocks) > 1

TransactionValidationSelfWitness ==
    /\ local[1].op = "is_valid" /\ local[1].message = "Cannot transfer to self"

\* C35 (difficulty stays in range): every persisted block has a difficulty
\* between BASE_DIFFICULTY and MAX_DIFFICULTY, and the difficulties of the
\* blocks at two consecutive indices differ by at most 2.
DifficultyInRange ==
    /\ \A b \in BlockRows : BASE_DIFFICULTY <= b.difficulty /\ b.difficulty <= MAX_DIFFICULTY
    /\ \A b \in BlockRows : \A c \in BlockRows :
           c.index = b.index + 1 =>
               /\ c.difficulty - b.difficulty <= 2
               /\ b.difficulty - c.difficulty <= 2

\* the proof-of-work search of the request of w succeeded in this step
PowSucceeds(w) ==
    /\ LeavesPow(w)
    /\ ~(pc'[w] = "idle" /\ local'[w].message = "Mining failed or timed out")

\* the ids of the transactions of the block of w, those of the mempool
\* entries the request selected among them
SelectedIds(w) == {local[w].transactions[k].id : k \in DOMAIN local[w].transactions}

\* C36 (mining progress): a mining request whose proof-of-work search
\* succeeds goes on to commit its block, and the commit removes the entries
\* the request selected from the mempool; no mempool entry makes the
\* requests that select it fail.
MiningProgress ==
    [][\A w \in Workers :
          /\ PowSucceeds(w) => pc'[w] = "mine_commit"
          /\ (pc[w] = "mine_commit" /\ pc'[w] = "mine_invalidate") =>
                 \A k \in DOMAIN pending' : pending'[k].tx_id \notin SelectedIds(w)]_vars

\* the rows of the mining-attempt log stored with success = true
SuccessfulAttempts == {i \in DOMAIN mining_attempts : mining_attempts[i].success}

\* the request of w returns from the proof-of-work step or commits its block
\* in this step
StoresAttempt(w) ==
    \/ LeavesPow(w) /\ pc'[w] = "idle"
    \/ pc[w] = "mine_commit" /\ pc'[w] = "mine_invalidate"

\* C37 (mining-attempt log integrity): a mining request that returns from
\* the proof-of-work step or commits its block adds exactly one
\* mining-attempt row; a row stored with success = false is never changed to
\* success = true; and the rows with success = true are as many as the
\* committed blocks after the genesis block.
AttemptLogIntegrity ==
    /\ [][\A w \in Workers : StoresAttempt(w) =>
              Len(mining_attempts') = Len(mining_attempts) + 1]_vars
    /\ [][\A i \in DOMAIN mining_attempts :
              /\ i \in DOMAIN mining_attempts'
              /\ ~mining_attempts[i].success => ~mining_attempts'[i].success]_vars
    /\ [](Cardinality(SuccessfulAttempts) = Len(blocks) - 1)

\* the sum of the balances held in a coin
Circulating(coin_type) ==
    SumBalances(balances, {k \in DOMAIN balances : k[2] = coin_type})

\* C38 (circulating supply within declared supply): for every stablecoin
\* other than CAD-COIN the sum of the balances held in the coin is at most
\* the total_supply of the coin.
CirculatingSupply ==
    \A symbol \in DOMAIN stable_coins \ {CAD} :
        Circulating(symbol) <= stable_coins[symbol].total_supply

\* minted coins were credited and then transferred, and the fee left the
\* circulation
CirculatingSupplyWitness ==
    /\ USDX \in DOMAIN stable_coins
    /\ StoredBalance(balances, "bob", USDX) = 40 * UnitsPerCoin
    /\ StoredBalance(balances, "alice", USDX) > 0
    /\ Circulating(USDX) < stable_coins[USDX].total_supply

\* the CAD-COIN balance rows of a balances table, summed
CadHeld(bal) == SumBalances(bal, {k \in DOMAIN bal : k[2] = CAD})

\* the committed transactions of a type in CAD-COIN and in the other coins
InCad(txs) == SelectSeq(txs, LAMBDA r : r.coin_type = CAD)
NotInCad(txs) == SelectSeq(txs, LAMBDA r : r.coin_type # CAD)

\* C39 as stated (CAD-COIN issuance per block): committing block i raises
\* the sum of the CAD-COIN balances by the base reward of block i plus the
\* CAD-COIN amounts minted in the block; fees in another coin or of mints
\* create no CAD-COIN.
CadIssuance ==
    [][CommitsBlock =>
           CadHeld(balances') - CadHeld(balances)
               = BaseReward(CommittedIndex)
                     + Amounts(InCad(OfType(Committed, "mint_stable")))]_vars

\* C39 (CAD-COIN issuance per block, amended): committing block i raises the
\* sum of the CAD-COIN balances by the base reward of block i, plus the
\* CAD-COIN amounts minted in the block, plus the fees of the mint_stable
\* transactions of the block, plus the fees of its transfers in other coins.
CadIssuanceWithFees ==
    [][CommitsBlock =>
           CadHeld(balances') - CadHeld(balances)
               = BaseReward(CommittedIndex)
                     + Amounts(InCad(OfType(Committed, "mint_stable")))
                     + Fees(OfType(Committed, "mint_stable"))
                     + Fees(NotInCad(OfType(Committed, "transfer")))]_vars

\* a mint and then a transfer in the stablecoin were committed, and the
\* miner holds their fees in CAD-COIN
CadIssuanceWitness ==
    /\ \E r \in Range(transactions) :
           r.transaction_type = "mint_stable" /\ r.coin_type = USDX
    /\ \E r \in Range(transactions) :
           r.transaction_type = "transfer" /\ r.coin_type = USDX
    /\ CadHeld(balances) > BaseReward(1) + BaseReward(2)

\* a CAD-COIN mint was committed
CadIssuanceMintWitness ==
    \E r \in Range(transactions) : r.transaction_type = "mint_stable" /\ r.coin_type = CAD

\* C40 (one tip per mining request): the block a mining request commits at
\* index i carries the difficulty the retarget rule gives on the chain ending
\* at block i - 1 and the hash of that block as previous_hash, also when
\* another request commits a block while this one is in progress.
OneTipPerRequest ==
    [][CommitsBlock =>
           LET b == blocks'[Len(blocks')]
               tip == blocks[Len(blocks)]
           IN  /\ tip.index = b.index - 1
               /\ b.previous_hash = tip.hash
               /\ b.difficulty = CalculateCurrentDifficulty(blocks)]_vars

=============================================================================
